---- MODULE Spec2Model ----
(***************************************************************************)
(* Model of go-update-orchestrator: the rollout engine                     *)
(* (pkg/orchestrator/execute.go) running on the worker pool                *)
(* (internal/pool/pool.go) with the in-memory progress tracker             *)
(* (pkg/progress/memory) and the event bus, and the retry policy           *)
(* (internal/retry/retry.go).                                              *)
(***************************************************************************)
EXTENDS Integers, Sequences, FiniteSets, TLC

\* ---------------------------------------------------------------- bounds
MaxDevices == 2
MaxConcurrentBound == 2
PayloadLen == 2
MaxAttemptsBound == 3
\* largest reading of the clock
MaxClock == 1
\* the bytesTransferred argument of an UpdateDevice call that reports bytes
MaxBytes == 1
\* largest sum of the bytesTransferred arguments passed for one update
MaxBytesSum == 2
\* largest MaxConcurrentUpdates a scheduler is configured with
MaxUpdatesBound == 1
\* largest number of Subscribe calls made on a bus
MaxSubscriptions == 3
\* largest number of handler goroutines that have not returned
MaxLiveHandlers == 2
\* the devices a registry lists for a progressive update
MaxTargets == 10
\* the rollout phases of a progressive update
MaxPhases == 3
\* the longest wait between two phases, in clock readings
MaxWait == 1
\* the longest delay of a retry config, in units of time.Duration
MaxDelayBound == 3

\* ------------------------------------------------------ program constants
\* orchestrator.DefaultConfig().RetryAttempts
RetryAttempts == 3
\* scheduler.DefaultConfig().MaxConcurrentUpdates
DefaultMaxConcurrentUpdates == 5

DeviceIDs == 1..MaxDevices
\* one goroutine more than the largest configured pool, so that a pool
\* starting too many workers is representable
WorkerIDs == 1..(MaxConcurrentBound + 1)

\* update ids used by direct callers of the progress tracker
TrackerIDs == {"u1"}

StatusPending == "pending"

StatusNone == ""
StatusInProgress == "in_progress"
StatusCompleted == "completed"
StatusFailed == "failed"

VARIABLES
  \* --- inputs of one ExecuteUpdateWithPayload call
  updateID,       \* update.ID ("" is the empty id)
  registryList,   \* what Registry.List returns: <<ok, devices>>
  maxConcurrent,  \* config.MaxConcurrent
  seekOK,         \* whether payload.Seek succeeds
  \* --- the calling goroutine
  mpc,            \* position in ExecuteUpdateWithPayload
  devices,        \* local: devices
  submitIdx,      \* loop index of step 5
  prog,           \* local: prog returned by GetProgress
  result,         \* returned error ("nil" or a message), "" before return
  \* --- worker pool
  taskQueue,      \* buffered channel contents (device of each task)
  queueClosed,    \* close(taskQueue) happened
  wpc,            \* worker -> position
  wdev,           \* worker -> device of its current task (0 = none)
  \* --- progress tracker
  updates,        \* map updateID -> updateState
  \* --- event bus: number of Publish calls per event
  evUpdateStarted,
  evUpdateCompleted,  \* sequence of the Data of each update.completed event
  evDeviceStarted,    \* device -> count
  evDeviceCompleted,
  evDeviceFailed,
  \* --- payload / delivery
  payloadPos,     \* read offset of the shared io.ReadSeeker
  received,       \* device -> bytes (offsets) its running Push call read,
                  \* or Garbled once they are no prefix of the payload
  pushCalls,      \* device -> number of Delivery.Push invocations
  pushErrors,     \* device -> number of Push calls that returned an error
  \* --- retry.Do
  rMaxAttempts,   \* config.MaxAttempts
  rBackoff,       \* config.InitialDelay, MaxDelay and Multiplier
  rpc,            \* position in Do
  attempt,        \* loop variable
  calls,          \* number of invocations of fn
  lastErr,        \* lastErr: [kind, n] (n = the invocation that returned it)
  sleeps,         \* number of backoff sleeps begun
  delays,         \* the delay of each backoff sleep begun
  ctxDone,        \* ctx.Done() is closed
  woken,          \* which case of the select was chosen
  outcomes,       \* history: what each invocation of fn returned
  cancelledAt,    \* history: value of calls when ctx was cancelled during
                  \* a backoff sleep, -1 if that has not happened
  rResult,        \* value returned by Do
  \* --- cancellation of a run
  pendingAtCancel,  \* history: the devices whose task had not begun when
                    \* the ctx of the run was cancelled
  \* --- callers of the progress tracker
  now,            \* reading of time.Now(); only Clock_Tick advances it, so
                  \* a run of the engine is timed at one reading
  argSum,         \* history: update -> sum of the bytesTransferred
                  \* arguments of its UpdateDevice calls since Start
  tGot,           \* what GetProgress returned, while it is the last call made
  \* --- scheduler
  sUpdates,       \* Scheduler.updates: id -> scheduledUpdate
  sLast,          \* the last call made on the scheduler and its result
  sMaxUpdates,    \* Scheduler.config.MaxConcurrentUpdates
  sRunning,       \* Scheduler.running
  sStopCh,        \* Scheduler.stopCh: "open" or "closed"
  sLoop,          \* the goroutine of Scheduler.run: "none" or "live"
  sLife,          \* the caller of Start and Stop: "idle", inside Stop
                  \* ("stopWait"), or "panicked"
  sExec,          \* the goroutines started by executeUpdate and not yet
                  \* returned: id -> position and locals
  \* --- event bus
  bHandlers,      \* Bus.handlers: event type -> sequence of handlers
  bPub,           \* the caller of Publish: its position and locals, kept
                  \* after the return
  bLive           \* handler -> number of its Handle goroutines that have
                  \* not returned

engineVars == <<updateID, registryList, maxConcurrent, seekOK,
                mpc, devices, submitIdx, prog, result,
                taskQueue, queueClosed, wpc, wdev, updates,
                evUpdateStarted, evUpdateCompleted, evDeviceStarted,
                evDeviceCompleted, evDeviceFailed,
                payloadPos, received, pushCalls,
                pushErrors>>

retryVars == <<rMaxAttempts, rBackoff, rpc, attempt, calls, lastErr, sleeps,
               delays, ctxDone, woken, outcomes, cancelledAt, rResult>>

cancelVars == <<pendingAtCancel>>

trackerVars == <<now, argSum, tGot>>

schedVars == <<sUpdates, sLast, sMaxUpdates, sRunning, sStopCh, sLoop, sLife,
               sExec>>

busVars == <<bHandlers, bPub, bLive>>

restVars == <<cancelVars, trackerVars, schedVars, busVars>>

vars == <<engineVars, retryVars, restVars>>

\* ------------------------------------------------------------ helpers
Range(s) == {s[i] : i \in 1..Len(s)}

\* the registry returns distinct devices in a fixed order
FirstN(n) == [i \in 1..n |-> i]

NoErr == [kind |-> "nil", n |-> 0]

\* ------------------------------------------------- progress tracker
\* memory.Tracker.Start: a fresh updateState replaces any earlier one
TrackerStart(ups, id, total) ==
  LET state == [totalDevices |-> total,
                completedDevices |-> 0,
                failedDevices |-> 0,
                inProgressDevices |-> 0,
                bytesTransferred |-> 0,
                ended |-> FALSE,
                deviceProgress |-> <<>>]
  IN  [u \in (DOMAIN ups) \cup {id} |-> IF u = id THEN state ELSE ups[u]]

\* an UpdateDevice that does not count a device out of its old status
Decrement_Skipped(count, s, old) == count

\* the counter of status s after a device left status old
Decrement(count, s, old) == IF old = s THEN count - 1 ELSE count

\* the counter of status s after a device entered status new
Increment(count, s, new) == IF new = s THEN count + 1 ELSE count

\* a *time.Time that is nil
NoTime == -1

\* an UpdateDevice that never stamps the end time
EndTimeAfter_NeverSet(old, status, t) == old

\* deviceProg.EndTime after the switch on the new status: entering
\* completed or failed stamps time.Now(), any other status keeps it
EndTimeAfter(old, status, t) ==
  IF status \in {StatusCompleted, StatusFailed} THEN t ELSE old

\* an UpdateDevice that overwrites the update's byte total
AccumulateBytes_Overwrite(total, bytes) == bytes

\* state.bytesTransferred += bytesTransferred
AccumulateBytes(total, bytes) == total + bytes

\* memory.Tracker.UpdateDevice at clock reading t
TrackerUpdateDevice(ups, id, dev, status, bytes, t) ==
  IF id \notin DOMAIN ups THEN ups
  ELSE
    LET state == ups[id]
        exists == dev \in DOMAIN state.deviceProgress
        deviceProg == IF exists THEN state.deviceProgress[dev]
                      ELSE [Status |-> StatusNone, BytesTransferred |-> 0,
                            StartTime |-> t, EndTime |-> NoTime]
        oldStatus == deviceProg.Status
        newProg == [Status |-> status,
                    BytesTransferred |-> bytes,
                    StartTime |-> deviceProg.StartTime,
                    EndTime |-> EndTimeAfter(deviceProg.EndTime, status, t)]
        newState ==
          [state EXCEPT
             !.inProgressDevices =
                Increment(Decrement(@, StatusInProgress, oldStatus),
                          StatusInProgress, status),
             !.completedDevices =
                Increment(Decrement(@, StatusCompleted, oldStatus),
                          StatusCompleted, status),
             !.failedDevices =
                Increment(Decrement(@, StatusFailed, oldStatus),
                          StatusFailed, status),
             !.bytesTransferred = AccumulateBytes(@, bytes),
             !.deviceProgress =
                [d \in (DOMAIN state.deviceProgress) \cup {dev} |->
                   IF d = dev THEN newProg ELSE state.deviceProgress[d]]]
    IN  [ups EXCEPT ![id] = newState]

\* memory.Tracker.Complete: stamps the end time, counters untouched
TrackerComplete(ups, id) ==
  IF id \notin DOMAIN ups THEN ups
  ELSE [ups EXCEPT ![id].ended = TRUE]

NotFound == [found |-> FALSE]

\* the condition under which GetProgress computes an estimated end time
EstimatedEndComputed(state) ==
  /\ state.completedDevices + state.failedDevices > 0
  /\ state.inProgressDevices + state.completedDevices + state.failedDevices
       < state.totalDevices

\* memory.Tracker.GetProgress: a value copy of the state, or not found;
\* hasEstimatedEnd tells whether EstimatedEnd is non-nil
GetProgress(ups, id) ==
  IF id \notin DOMAIN ups THEN NotFound
  ELSE
    LET state == ups[id]
    IN  [found |-> TRUE,
         UpdateID |-> id,
         TotalDevices |-> state.totalDevices,
         CompletedDevices |-> state.completedDevices,
         FailedDevices |-> state.failedDevices,
         InProgressDevices |-> state.inProgressDevices,
         BytesTransferred |-> state.bytesTransferred,
         hasEstimatedEnd |-> EstimatedEndComputed(state),
         DeviceProgress |-> state.deviceProgress]

\* a GetStatus that compares only the completed counter with the total
OverallStatus_CompletedOnly(p) ==
  IF p.CompletedDevices = p.TotalDevices
  THEN StatusCompleted
  ELSE StatusInProgress

\* the branch of GetStatus that determines the overall status
OverallStatus(p) ==
  IF p.CompletedDevices + p.FailedDevices = p.TotalDevices
  THEN IF p.FailedDevices > 0 THEN StatusFailed ELSE StatusCompleted
  ELSE StatusInProgress

\* Orchestrator.GetStatus
GetStatus(ups, id) ==
  LET p == GetProgress(ups, id)
  IN  IF ~p.found THEN NotFound
      ELSE [found |-> TRUE,
            UpdateID |-> p.UpdateID,
            TotalDevices |-> p.TotalDevices,
            Completed |-> p.CompletedDevices,
            Failed |-> p.FailedDevices,
            InProgress |-> p.InProgressDevices,
            DeviceStatus |-> [d \in DOMAIN p.DeviceProgress |->
                                p.DeviceProgress[d].Status],
            Status |-> OverallStatus(p)]

\* retry.Do is not running; the backoff is that of retry.DefaultConfig(),
\* in seconds, with the float64 Multiplier as the ratio of two integers
\* ------------------------------------------------------------ Init
RetryIdle ==
  /\ rBackoff = [InitialDelay |-> 1, MaxDelay |-> 30,
                  Multiplier |-> [num |-> 2, den |-> 1]]
  /\ delays = <<>>
  /\ rpc = "idle"
  /\ attempt = 0
  /\ calls = 0
  /\ lastErr = NoErr
  /\ sleeps = 0
  /\ ctxDone = FALSE
  /\ woken = "none"
  /\ outcomes = <<>>
  /\ cancelledAt = -1
  /\ rResult = NoErr

\* the event types published on a bus
EventTypes == {"update.started", "device.completed"}

\* the handlers given to Subscribe
HandlerIDs == {"h1", "h2"}

\* events.NewBus(bufferSize): no handler is subscribed, and nobody has
\* published
BusNew ==
  /\ bHandlers = [t \in EventTypes |-> <<>>]
  /\ bPub = [pc |-> "idle", type |-> "none", handlers |-> <<>>,
             invoked |-> <<>>, atCall |-> <<>>, returned |-> FALSE]
  /\ bLive = [h \in HandlerIDs |-> 0]

\* no cancellation, no direct tracker call and no call on the bus happened
CallersIdle ==
  /\ pendingAtCancel = {}
  /\ now = 0
  /\ argSum = [u \in TrackerIDs |-> 0]
  /\ tGot = NotFound
  /\ BusNew

\* scheduler.New(config, orch, reg) with config.MaxConcurrentUpdates =
\* maxUpdates: an empty table, an open stopCh, not running
SchedulerNew(maxUpdates) ==
  /\ sUpdates = <<>>
  /\ sLast = [op |-> "none"]
  /\ sMaxUpdates = maxUpdates
  /\ sRunning = FALSE
  /\ sStopCh = "open"
  /\ sLoop = "none"
  /\ sLife = "idle"
  /\ sExec = <<>>

\* no cancellation, no direct tracker call and no scheduler call happened:
\* memory.New() and scheduler.New() return empty maps
RestIdle ==
  /\ CallersIdle
  /\ SchedulerNew(DefaultMaxConcurrentUpdates)

\* an engine returned by NewDefault on which nothing was called, with its
\* tracker, its event log and the devices' records empty
EngineFresh ==
  /\ mpc = "validate"
  /\ devices = <<>>
  /\ submitIdx = 0
  /\ prog = NotFound
  /\ result = ""
  /\ taskQueue = <<>>
  /\ queueClosed = FALSE
  /\ wpc = [w \in WorkerIDs |-> "off"]
  /\ wdev = [w \in WorkerIDs |-> 0]
  /\ updates = <<>>
  /\ evUpdateStarted = 0
  /\ evUpdateCompleted = <<>>
  /\ evDeviceStarted = [d \in DeviceIDs |-> 0]
  /\ evDeviceCompleted = [d \in DeviceIDs |-> 0]
  /\ evDeviceFailed = [d \in DeviceIDs |-> 0]
  /\ payloadPos = 0
  /\ received = [d \in DeviceIDs |-> <<>>]
  /\ pushCalls = [d \in DeviceIDs |-> 0]
  /\ pushErrors = [d \in DeviceIDs |-> 0]

\* the state after NewDefault(config, registry, delivery) and before the
\* call of ExecuteUpdateWithPayload(ctx, update, payload)
EngineInit ==
  /\ updateID \in {"", "u1"}
  /\ registryList \in
       {[ok |-> FALSE, devs |-> <<>>]} \cup
       {[ok |-> TRUE, devs |-> FirstN(n)] : n \in 0..MaxDevices}
  /\ maxConcurrent \in 1..MaxConcurrentBound
  /\ seekOK \in BOOLEAN
  /\ EngineFresh

Init ==
  /\ EngineInit
  /\ rMaxAttempts = RetryAttempts
  /\ RetryIdle
  /\ RestIdle

\* ------------------------------------- ExecuteUpdateWithPayload (caller)
\* step 1: validate update
Execute_Validate ==
  /\ mpc = "validate"
  /\ IF updateID = ""
     THEN /\ mpc' = "returned"
          /\ result' = "update ID is required"
     ELSE /\ mpc' = "list"
          /\ UNCHANGED result
  /\ UNCHANGED <<updateID, registryList, maxConcurrent, seekOK, devices,
                 submitIdx, prog, taskQueue, queueClosed, wpc, wdev,
                 updates, evUpdateStarted, evUpdateCompleted,
                 evDeviceStarted, evDeviceCompleted, evDeviceFailed,
                 payloadPos, received, pushCalls, pushErrors,
                 retryVars, restVars>>

\* an engine that goes on with an empty device list
Execute_List_AcceptsEmpty ==
  /\ mpc = "list"
  /\ devices' = registryList.devs
  /\ IF ~registryList.ok
     THEN /\ mpc' = "returned"
          /\ result' = "failed to list devices"
     ELSE /\ mpc' = "start"
          /\ UNCHANGED result
  /\ UNCHANGED <<updateID, registryList, maxConcurrent, seekOK, submitIdx,
                 prog, taskQueue, queueClosed, wpc, wdev, updates,
                 evUpdateStarted, evUpdateCompleted, evDeviceStarted,
                 evDeviceCompleted, evDeviceFailed, payloadPos, received,
                 pushCalls, pushErrors, retryVars, restVars>>

\* step 2: fetch devices from the registry
Execute_List ==
  /\ mpc = "list"
  /\ devices' = registryList.devs
  /\ IF ~registryList.ok
     THEN /\ mpc' = "returned"
          /\ result' = "failed to list devices"
     ELSE IF Len(registryList.devs) = 0
     THEN /\ mpc' = "returned"
          /\ result' = "no devices match the filter"
     ELSE /\ mpc' = "start"
          /\ UNCHANGED result
  /\ UNCHANGED <<updateID, registryList, maxConcurrent, seekOK, submitIdx,
                 prog, taskQueue, queueClosed, wpc, wdev, updates,
                 evUpdateStarted, evUpdateCompleted, evDeviceStarted,
                 evDeviceCompleted, evDeviceFailed, payloadPos, received,
                 pushCalls, pushErrors, retryVars, restVars>>

\* step 3: o.progress.Start(ctx, update.ID, len(devices))
Execute_ProgressStart ==
  /\ mpc = "start"
  /\ updates' = TrackerStart(updates, updateID, Len(devices))
  /\ mpc' = "pubStarted"
  /\ UNCHANGED <<updateID, registryList, maxConcurrent, seekOK, devices,
                 submitIdx, prog, result, taskQueue, queueClosed, wpc, wdev,
                 evUpdateStarted, evUpdateCompleted, evDeviceStarted,
                 evDeviceCompleted, evDeviceFailed, payloadPos, received,
                 pushCalls, pushErrors, retryVars, restVars>>

\* an engine that opens tracking and does not publish update.started
Execute_PublishStarted_Omitted ==
  /\ mpc = "pubStarted"
  /\ mpc' = "poolStart"
  /\ UNCHANGED <<updateID, registryList, maxConcurrent, seekOK, devices,
                 submitIdx, prog, result, taskQueue, queueClosed, wpc, wdev,
                 updates, evUpdateStarted, evUpdateCompleted,
                 evDeviceStarted, evDeviceCompleted, evDeviceFailed,
                 payloadPos, received, pushCalls, pushErrors,
                 retryVars, restVars>>

\* step 3: o.events.Publish(update.started)
Execute_PublishStarted ==
  /\ mpc = "pubStarted"
  /\ evUpdateStarted' = evUpdateStarted + 1
  /\ mpc' = "poolStart"
  /\ UNCHANGED <<updateID, registryList, maxConcurrent, seekOK, devices,
                 submitIdx, prog, result, taskQueue, queueClosed, wpc, wdev,
                 updates, evUpdateCompleted, evDeviceStarted,
                 evDeviceCompleted, evDeviceFailed, payloadPos, received,
                 pushCalls, pushErrors, retryVars, restVars>>

\* a Start that launches no goroutine
WorkersStarted_None(maxWorkers) == {}

\* a Start loop that runs once too often (i <= p.maxWorkers)
WorkersStarted_OffByOne(maxWorkers) == 1..(maxWorkers + 1)

\* WorkerPool.Start: the goroutines the loop launches
WorkersStarted(maxWorkers) == 1..maxWorkers

\* step 4: pool.New(MaxConcurrent); workerPool.Start(ctx); defer Stop()
Execute_PoolStart ==
  /\ mpc = "poolStart"
  /\ taskQueue' = <<>>
  /\ queueClosed' = FALSE
  /\ wpc' = [w \in WorkerIDs |->
               IF w \in WorkersStarted(maxConcurrent) THEN "recv" ELSE "off"]
  /\ submitIdx' = 1
  /\ mpc' = "submit"
  /\ UNCHANGED <<updateID, registryList, maxConcurrent, seekOK, devices,
                 prog, result, wdev, updates, evUpdateStarted,
                 evUpdateCompleted, evDeviceStarted, evDeviceCompleted,
                 evDeviceFailed, payloadPos, received, pushCalls,
                 pushErrors, retryVars, restVars>>

\* step 5: workerPool.Submit(task) for the next device; the send blocks
\* while the channel (capacity maxWorkers) is full
Execute_Submit ==
  /\ mpc = "submit"
  /\ submitIdx <= Len(devices)
  /\ Len(taskQueue) < maxConcurrent
  /\ taskQueue' = Append(taskQueue, devices[submitIdx])
  /\ submitIdx' = submitIdx + 1
  /\ UNCHANGED <<updateID, registryList, maxConcurrent, seekOK, mpc,
                 devices, prog, result, queueClosed, wpc, wdev, updates,
                 evUpdateStarted, evUpdateCompleted, evDeviceStarted,
                 evDeviceCompleted, evDeviceFailed, payloadPos, received,
                 pushCalls, pushErrors, retryVars, restVars>>

\* step 7: o.progress.Complete(ctx, update.ID), reached when the submit
\* loop ends (the deferred Stop has not run yet)
Execute_ProgressComplete ==
  /\ mpc = "submit"
  /\ submitIdx > Len(devices)
  /\ updates' = TrackerComplete(updates, updateID)
  /\ mpc' = "getProgress"
  /\ UNCHANGED <<updateID, registryList, maxConcurrent, seekOK, devices,
                 submitIdx, prog, result, taskQueue, queueClosed, wpc, wdev,
                 evUpdateStarted, evUpdateCompleted, evDeviceStarted,
                 evDeviceCompleted, evDeviceFailed, payloadPos, received,
                 pushCalls, pushErrors, retryVars, restVars>>

\* step 7: prog, _ := o.progress.GetProgress(ctx, update.ID)
Execute_GetProgress ==
  /\ mpc = "getProgress"
  /\ prog' = GetProgress(updates, updateID)
  /\ mpc' = "pubCompleted"
  /\ UNCHANGED <<updateID, registryList, maxConcurrent, seekOK, devices,
                 submitIdx, result, taskQueue, queueClosed, wpc, wdev,
                 updates, evUpdateStarted, evUpdateCompleted,
                 evDeviceStarted, evDeviceCompleted, evDeviceFailed,
                 payloadPos, received, pushCalls, pushErrors,
                 retryVars, restVars>>

\* step 7: o.events.Publish(update.completed{completed, failed});
\* return nil then runs the deferred workerPool.Stop()
Execute_PublishCompleted ==
  /\ mpc = "pubCompleted"
  /\ evUpdateCompleted' =
       Append(evUpdateCompleted,
              [completed |-> prog.CompletedDevices,
               failed |-> prog.FailedDevices])
  /\ mpc' = "stopClose"
  /\ UNCHANGED <<updateID, registryList, maxConcurrent, seekOK, devices,
                 submitIdx, prog, result, taskQueue, queueClosed, wpc, wdev,
                 updates, evUpdateStarted, evDeviceStarted,
                 evDeviceCompleted, evDeviceFailed, payloadPos, received,
                 pushCalls, pushErrors, retryVars, restVars>>

\* WorkerPool.Stop: close(p.taskQueue)
Stop_Close ==
  /\ mpc = "stopClose"
  /\ queueClosed' = TRUE
  /\ mpc' = "stopWait"
  /\ UNCHANGED <<updateID, registryList, maxConcurrent, seekOK, devices,
                 submitIdx, prog, result, taskQueue, wpc, wdev, updates,
                 evUpdateStarted, evUpdateCompleted, evDeviceStarted,
                 evDeviceCompleted, evDeviceFailed, payloadPos, received,
                 pushCalls, pushErrors, retryVars, restVars>>

\* a Stop that closes the channel and does not wait for the workers
WaitGroupDone_NoWait(pcs) == TRUE

\* p.wg.Wait() unblocks when every started worker has called wg.Done()
WaitGroupDone(pcs) == \A w \in WorkerIDs : pcs[w] \in {"off", "exited"}

\* WorkerPool.Stop: p.wg.Wait(), then ExecuteUpdateWithPayload returns nil
Stop_Wait ==
  /\ mpc = "stopWait"
  /\ WaitGroupDone(wpc)
  /\ mpc' = "returned"
  /\ result' = "nil"
  /\ UNCHANGED <<updateID, registryList, maxConcurrent, seekOK, devices,
                 submitIdx, prog, taskQueue, queueClosed, wpc, wdev,
                 updates, evUpdateStarted, evUpdateCompleted,
                 evDeviceStarted, evDeviceCompleted, evDeviceFailed,
                 payloadPos, received, pushCalls, pushErrors,
                 retryVars, restVars>>

\* --------------------------------------------------- WorkerPool.worker
\* for task := range p.taskQueue: receive the next task. The workers are
\* identical goroutines, so of the workers blocked on the channel the
\* lowest-numbered one stands for whichever the runtime wakes
Worker_Receive(w) ==
  /\ wpc[w] = "recv"
  /\ \A v \in WorkerIDs : v < w => wpc[v] # "recv"
  /\ Len(taskQueue) > 0
  /\ wdev' = [wdev EXCEPT ![w] = Head(taskQueue)]
  /\ taskQueue' = Tail(taskQueue)
  /\ wpc' = [wpc EXCEPT ![w] = "markInProgress"]
  /\ UNCHANGED <<updateID, registryList, maxConcurrent, seekOK, mpc,
                 devices, submitIdx, prog, result, queueClosed, updates,
                 evUpdateStarted, evUpdateCompleted, evDeviceStarted,
                 evDeviceCompleted, evDeviceFailed, payloadPos, received,
                 pushCalls, pushErrors, retryVars, restVars>>

\* a range loop that ends as soon as the channel is closed
RangeEnds_OnClose(queue, closed) == closed

\* for task := range p.taskQueue ends when the channel is closed and the
\* tasks buffered in it have been received
RangeEnds(queue, closed) == closed /\ Len(queue) = 0

\* the range loop ends when the channel is closed and drained; wg.Done()
Worker_Exit(w) ==
  /\ wpc[w] = "recv"
  /\ RangeEnds(taskQueue, queueClosed)
  /\ wpc' = [wpc EXCEPT ![w] = "exited"]
  /\ UNCHANGED <<updateID, registryList, maxConcurrent, seekOK, mpc,
                 devices, submitIdx, prog, result, taskQueue, queueClosed,
                 wdev, updates, evUpdateStarted, evUpdateCompleted,
                 evDeviceStarted, evDeviceCompleted, evDeviceFailed,
                 payloadPos, received, pushCalls, pushErrors,
                 retryVars, restVars>>

\* a worker that leaves its loop when a task returns an error
AfterTask_StopOnError(failed) == IF failed THEN "exited" ELSE "recv"

\* if err := task(ctx); err != nil { }: the error a task returns is
\* dropped and the worker goes on to receive the next task
AfterTask(failed) == "recv"

\* ------------------------------------------------------- updateDevice
\* o.progress.UpdateDevice(..., in_progress, 0)
UpdateDevice_MarkInProgress(w) ==
  /\ wpc[w] = "markInProgress"
  /\ updates' = TrackerUpdateDevice(updates, updateID, wdev[w],
                                    StatusInProgress, 0, now)
  /\ wpc' = [wpc EXCEPT ![w] = "pubDeviceStarted"]
  /\ UNCHANGED <<updateID, registryList, maxConcurrent, seekOK, mpc,
                 devices, submitIdx, prog, result, taskQueue, queueClosed,
                 wdev, evUpdateStarted, evUpdateCompleted, evDeviceStarted,
                 evDeviceCompleted, evDeviceFailed, payloadPos, received,
                 pushCalls, pushErrors, retryVars, restVars>>

\* o.events.Publish(device.started)
UpdateDevice_PublishStarted(w) ==
  /\ wpc[w] = "pubDeviceStarted"
  /\ evDeviceStarted' = [evDeviceStarted EXCEPT ![wdev[w]] = @ + 1]
  /\ wpc' = [wpc EXCEPT ![w] = "seek"]
  /\ UNCHANGED <<updateID, registryList, maxConcurrent, seekOK, mpc,
                 devices, submitIdx, prog, result, taskQueue, queueClosed,
                 wdev, updates, evUpdateStarted, evUpdateCompleted,
                 evDeviceCompleted, evDeviceFailed, payloadPos, received,
                 pushCalls, pushErrors, retryVars, restVars>>

\* payload.Seek(0, io.SeekStart) on the payload all tasks share
UpdateDevice_Seek(w) ==
  /\ wpc[w] = "seek"
  /\ IF seekOK
     THEN /\ payloadPos' = 0
          /\ wpc' = [wpc EXCEPT ![w] = "push"]
     ELSE /\ UNCHANGED payloadPos
          /\ wpc' = [wpc EXCEPT ![w] = "markFailed"]
  /\ UNCHANGED <<updateID, registryList, maxConcurrent, seekOK, mpc,
                 devices, submitIdx, prog, result, taskQueue, queueClosed,
                 wdev, updates, evUpdateStarted, evUpdateCompleted,
                 evDeviceStarted, evDeviceCompleted, evDeviceFailed,
                 received, pushCalls, pushErrors, retryVars, restVars>>

\* err := o.delivery.Push(ctx, device, payload): the call
UpdateDevice_Push(w) ==
  /\ wpc[w] = "push"
  /\ pushCalls' = [pushCalls EXCEPT ![wdev[w]] = @ + 1]
  /\ received' = [received EXCEPT ![wdev[w]] = <<>>]
  /\ wpc' = [wpc EXCEPT ![w] = "pushing"]
  /\ UNCHANGED <<updateID, registryList, maxConcurrent, seekOK, mpc,
                 devices, submitIdx, prog, result, taskQueue, queueClosed,
                 wdev, updates, evUpdateStarted, evUpdateCompleted,
                 evDeviceStarted, evDeviceCompleted, evDeviceFailed,
                 payloadPos, pushErrors, retryVars, restVars>>

\* a stream that is no longer a prefix of the payload: whatever is read
\* next, it cannot become the payload again
Garbled == <<-1>>

\* the stream r of a Push after reading the byte at offset pos
ReadByte(r, pos) ==
  IF r # Garbled /\ Len(r) = pos THEN Append(r, pos) ELSE Garbled

\* Delivery.Push streams the payload: one Read of the shared reader
Push_Read(w) ==
  /\ wpc[w] = "pushing"
  /\ payloadPos < PayloadLen
  /\ received' = [received EXCEPT ![wdev[w]] = ReadByte(@, payloadPos)]
  /\ payloadPos' = payloadPos + 1
  /\ UNCHANGED <<updateID, registryList, maxConcurrent, seekOK, mpc,
                 devices, submitIdx, prog, result, taskQueue, queueClosed,
                 wpc, wdev, updates, evUpdateStarted, evUpdateCompleted,
                 evDeviceStarted, evDeviceCompleted, evDeviceFailed,
                 pushCalls, pushErrors, retryVars, restVars>>

\* what the Delivery port can return from Push: nil or a transient error
PushResults == {"nil", "transient"}

\* the bytes of the payload, in order
PayloadBytes == [i \in 1..PayloadLen |-> i - 1]

\* Delivery.Push returns err once the reader reports EOF (the device
\* accepts or rejects the upload); if err != nil the task goes to
\* handleDeviceFailure
Push_Return(w, err) ==
  /\ wpc[w] = "pushing"
  /\ payloadPos >= PayloadLen
  /\ wpc' = [wpc EXCEPT ![w] =
               IF err = "nil" THEN "markCompleted" ELSE "markFailed"]
  /\ received' = [received EXCEPT ![wdev[w]] = <<>>]
  /\ pushErrors' = [pushErrors EXCEPT ![wdev[w]] =
                      IF err = "nil" THEN @ ELSE @ + 1]
  /\ UNCHANGED <<updateID, registryList, maxConcurrent, seekOK, mpc,
                 devices, submitIdx, prog, result, taskQueue, queueClosed,
                 wdev, updates, evUpdateStarted, evUpdateCompleted,
                 evDeviceStarted, evDeviceCompleted, evDeviceFailed,
                 payloadPos, pushCalls, retryVars, restVars>>

\* o.progress.UpdateDevice(..., completed, 0)
UpdateDevice_MarkCompleted(w) ==
  /\ wpc[w] = "markCompleted"
  /\ updates' = TrackerUpdateDevice(updates, updateID, wdev[w],
                                    StatusCompleted, 0, now)
  /\ wpc' = [wpc EXCEPT ![w] = "pubDeviceCompleted"]
  /\ UNCHANGED <<updateID, registryList, maxConcurrent, seekOK, mpc,
                 devices, submitIdx, prog, result, taskQueue, queueClosed,
                 wdev, evUpdateStarted, evUpdateCompleted, evDeviceStarted,
                 evDeviceCompleted, evDeviceFailed, payloadPos, received,
                 pushCalls, pushErrors, retryVars, restVars>>

\* o.events.Publish(device.completed); the task returns nil
UpdateDevice_PublishCompleted(w) ==
  /\ wpc[w] = "pubDeviceCompleted"
  /\ evDeviceCompleted' = [evDeviceCompleted EXCEPT ![wdev[w]] = @ + 1]
  /\ wpc' = [wpc EXCEPT ![w] = AfterTask(FALSE)]
  /\ wdev' = [wdev EXCEPT ![w] = 0]
  /\ UNCHANGED <<updateID, registryList, maxConcurrent, seekOK, mpc,
                 devices, submitIdx, prog, result, taskQueue, queueClosed,
                 updates, evUpdateStarted, evUpdateCompleted,
                 evDeviceStarted, evDeviceFailed, payloadPos, received,
                 pushCalls, pushErrors, retryVars, restVars>>

\* handleDeviceFailure: o.progress.UpdateDevice(..., failed, 0)
HandleDeviceFailure_Mark(w) ==
  /\ wpc[w] = "markFailed"
  /\ updates' = TrackerUpdateDevice(updates, updateID, wdev[w],
                                    StatusFailed, 0, now)
  /\ wpc' = [wpc EXCEPT ![w] = "pubDeviceFailed"]
  /\ UNCHANGED <<updateID, registryList, maxConcurrent, seekOK, mpc,
                 devices, submitIdx, prog, result, taskQueue, queueClosed,
                 wdev, evUpdateStarted, evUpdateCompleted, evDeviceStarted,
                 evDeviceCompleted, evDeviceFailed, payloadPos, received,
                 pushCalls, pushErrors, retryVars, restVars>>

\* handleDeviceFailure: o.events.Publish(device.failed); the task
\* returns err, which the worker drops
HandleDeviceFailure_Publish(w) ==
  /\ wpc[w] = "pubDeviceFailed"
  /\ evDeviceFailed' = [evDeviceFailed EXCEPT ![wdev[w]] = @ + 1]
  /\ wpc' = [wpc EXCEPT ![w] = AfterTask(TRUE)]
  /\ wdev' = [wdev EXCEPT ![w] = 0]
  /\ UNCHANGED <<updateID, registryList, maxConcurrent, seekOK, mpc,
                 devices, submitIdx, prog, result, taskQueue, queueClosed,
                 updates, evUpdateStarted, evUpdateCompleted,
                 evDeviceStarted, evDeviceCompleted, payloadPos, received,
                 pushCalls, pushErrors, retryVars, restVars>>

\* ------------------------------------------------------ specification
Next ==
  \/ Execute_Validate
  \/ Execute_List
  \/ Execute_ProgressStart
  \/ Execute_PublishStarted
  \/ Execute_PoolStart
  \/ Execute_Submit
  \/ Execute_ProgressComplete
  \/ Execute_GetProgress
  \/ Execute_PublishCompleted
  \/ Stop_Close
  \/ Stop_Wait
  \/ \E w \in WorkerIDs : Worker_Receive(w)
  \/ \E w \in WorkerIDs : Worker_Exit(w)
  \/ \E w \in WorkerIDs : UpdateDevice_MarkInProgress(w)
  \/ \E w \in WorkerIDs : UpdateDevice_PublishStarted(w)
  \/ \E w \in WorkerIDs : UpdateDevice_Seek(w)
  \/ \E w \in WorkerIDs : UpdateDevice_Push(w)
  \/ \E w \in WorkerIDs : Push_Read(w)
  \/ \E w \in WorkerIDs : \E err \in PushResults : Push_Return(w, err)
  \/ \E w \in WorkerIDs : UpdateDevice_MarkCompleted(w)
  \/ \E w \in WorkerIDs : UpdateDevice_PublishCompleted(w)
  \/ \E w \in WorkerIDs : HandleDeviceFailure_Mark(w)
  \/ \E w \in WorkerIDs : HandleDeviceFailure_Publish(w)

Spec == Init /\ [][Next]_vars

\* ------------------------------------------------- cancellation of a run
\* the devices of the run whose task no worker has received yet
NotBegun ==
  {d \in Range(registryList.devs) :
     /\ \A w \in WorkerIDs : wdev[w] # d
     /\ ~(updateID \in DOMAIN updates
          /\ d \in DOMAIN updates[updateID].deviceProgress)}

\* the caller cancels the ctx it passed to ExecuteUpdateWithPayload while
\* the call is running
Execute_CtxCancel ==
  /\ mpc # "returned"
  /\ ~ctxDone
  /\ ctxDone' = TRUE
  /\ pendingAtCancel' = NotBegun
  /\ UNCHANGED <<engineVars, rMaxAttempts, rBackoff, rpc, attempt, calls,
                 lastErr, sleeps, delays, woken, outcomes, cancelledAt,
                 rResult, trackerVars, schedVars, busVars>>

NextCancel ==
  \/ Next
  \/ Execute_CtxCancel

\* a run of ExecuteUpdateWithPayload whose ctx may be cancelled
SpecCancel == Init /\ [][NextCancel]_vars

\* the runs checked for termination: any pool over a device list that is
\* not of the largest size, and one worker for the largest list
TerminationInit ==
  /\ updateID \in {"", "u1"}
  /\ \E n \in 0..MaxDevices, c \in 1..MaxConcurrentBound :
       /\ c = 1 \/ n < MaxDevices
       /\ registryList \in {[ok |-> FALSE, devs |-> <<>>],
                             [ok |-> TRUE, devs |-> FirstN(n)]}
       /\ maxConcurrent = c
  /\ seekOK \in BOOLEAN
  /\ EngineFresh
  /\ rMaxAttempts = RetryAttempts
  /\ RetryIdle
  /\ RestIdle

\* the goroutine of the call and the workers keep running, and every
\* Push returns; nothing obliges the owner of ctx to cancel it
SpecCancelFair == TerminationInit /\ [][NextCancel]_vars /\ WF_vars(Next)

\* ----------------------------------- direct callers of memory.Tracker
\* everything a tracker call leaves alone
nonTrackerVars ==
  <<updateID, registryList, maxConcurrent, seekOK, mpc, devices, submitIdx,
    prog, result, taskQueue, queueClosed, wpc, wdev, evUpdateStarted,
    evUpdateCompleted, evDeviceStarted, evDeviceCompleted, evDeviceFailed,
    payloadPos, received, pushCalls, pushErrors, retryVars, cancelVars,
    schedVars, busVars>>

\* the engine is constructed and ExecuteUpdateWithPayload is not called
EngineBuilt ==
  /\ updateID = "u1"
  /\ maxConcurrent = 1
  /\ seekOK = TRUE
  /\ EngineInit
  /\ rMaxAttempts = RetryAttempts
  /\ RetryIdle

\* the engine is constructed and neither it nor the scheduler is called
EngineIdle ==
  /\ EngineBuilt
  /\ RestIdle

\* a tracker created by memory.New() and not yet used; its callers report
\* on the devices of the registry
TrackerInit ==
  /\ registryList = [ok |-> TRUE, devs |-> FirstN(MaxDevices)]
  /\ EngineIdle

\* time passes between two calls
Clock_Tick ==
  /\ now < MaxClock
  /\ now' = now + 1
  /\ UNCHANGED <<updates, argSum, tGot, nonTrackerVars>>

\* tracker.Start(ctx, id, total)
Tracker_Start(id, total) ==
  /\ updates' = TrackerStart(updates, id, total)
  /\ argSum' = [argSum EXCEPT ![id] = 0]
  /\ tGot' = NotFound
  /\ UNCHANGED <<now, nonTrackerVars>>

\* tracker.UpdateDevice(ctx, id, dev, status, bytes)
Tracker_UpdateDevice(id, dev, status, bytes) ==
  /\ argSum[id] + bytes <= MaxBytesSum
  /\ updates' = TrackerUpdateDevice(updates, id, dev, status, bytes, now)
  /\ argSum' = IF id \in DOMAIN updates
               THEN [argSum EXCEPT ![id] = @ + bytes]
               ELSE argSum
  /\ tGot' = NotFound
  /\ UNCHANGED <<now, nonTrackerVars>>

\* tracker.Complete(ctx, id)
Tracker_Complete(id) ==
  /\ updates' = TrackerComplete(updates, id)
  /\ tGot' = NotFound
  /\ UNCHANGED <<now, argSum, nonTrackerVars>>

\* prog, err := tracker.GetProgress(ctx, id)
Tracker_GetProgress(id) ==
  /\ tGot' = GetProgress(updates, id)
  /\ UNCHANGED <<now, updates, argSum, nonTrackerVars>>

\* callers pass UpdateDevice any status string, and as bytesTransferred
\* nothing new or one chunk
TrackerNext ==
  \/ \E id \in TrackerIDs : \E total \in 0..MaxDevices :
       Tracker_Start(id, total)
  \/ \E id \in TrackerIDs : \E dev \in Range(registryList.devs) :
       \E status \in {StatusPending, StatusInProgress, StatusCompleted,
                       StatusFailed} :
         \E bytes \in {0, MaxBytes} :
           Tracker_UpdateDevice(id, dev, status, bytes)
  \/ \E id \in TrackerIDs : Tracker_Complete(id)
  \/ \E id \in TrackerIDs : Tracker_GetProgress(id)

\* any sequence of calls on one tracker, made at one reading of the clock
SpecTracker == TrackerInit /\ [][TrackerNext]_vars

\* a tracker not yet used whose callers report on one device
TrackerClockInit ==
  /\ registryList = [ok |-> TRUE, devs |-> FirstN(1)]
  /\ EngineIdle

TrackerClockNext ==
  \/ Clock_Tick
  \/ TrackerNext

\* any sequence of calls about one device, with time passing between them
SpecTrackerClock == TrackerClockInit /\ [][TrackerClockNext]_vars

\* ----------------------------------------------------------- Scheduler
StatusScheduled == "scheduled"
StatusCancelled == "cancelled"

StrategyImmediate == "immediate"
StrategyScheduled == "scheduled"
StrategyProgressive == "progressive"
StrategyOnConnect == "on_connect"

\* the ids callers put into an update
ScheduleIDs == {"", "u1", "u2"}

\* a core.RolloutPhase
PhaseOf(pct, wait) == [Percentage |-> pct, WaitTime |-> wait]

\* a core.Update: the times are NoTime for nil
UpdateOf(id, strategy, at, start, end, phases) ==
  [ID |-> id, Strategy |-> strategy, ScheduledAt |-> at,
   WindowStart |-> start, WindowEnd |-> end, RolloutPhases |-> phases]

\* the core.Update values passed to Schedule on a scheduler that is not
\* started: ScheduledAt is nil or a time; Schedule reads neither the
\* window nor the phases
UpdateInputs ==
  {UpdateOf(id, strategy, at, NoTime, NoTime, <<>>) :
     id \in ScheduleIDs,
     strategy \in {StrategyImmediate, StrategyScheduled,
                   StrategyProgressive, StrategyOnConnect,
                   "invalid-strategy"},
     at \in {NoTime, MaxClock}}

\* the switch on update.Strategy in Schedule: the initial status, or the
\* error it returns
InitialStatus(update) ==
  IF update.Strategy = StrategyImmediate
  THEN [err |-> "nil", status |-> StatusPending]
  ELSE IF update.Strategy = StrategyScheduled
  THEN IF update.ScheduledAt = NoTime
       THEN [err |-> "scheduled strategy requires ScheduledAt time",
             status |-> StatusNone]
       ELSE [err |-> "nil", status |-> StatusScheduled]
  ELSE IF update.Strategy = StrategyProgressive
  THEN [err |-> "nil", status |-> StatusPending]
  ELSE IF update.Strategy = StrategyOnConnect
  THEN [err |-> "nil", status |-> StatusScheduled]
  ELSE [err |-> "unknown update strategy", status |-> StatusNone]

\* a Schedule that does not look for the id in its table
AlreadyScheduled_Unchecked(table, id) == FALSE

\* _, exists := s.updates[update.ID]
AlreadyScheduled(table, id) == id \in DOMAIN table

\* the error Schedule returns for update on the table, "nil" for none
ScheduleErr(table, update) ==
  IF update.ID = "" THEN "update ID is required"
  ELSE IF InitialStatus(update).err # "nil" THEN InitialStatus(update).err
  ELSE IF AlreadyScheduled(table, update.ID) THEN "already scheduled"
  ELSE "nil"

\* everything a scheduler call leaves alone
nonSchedVars ==
  <<engineVars, retryVars, cancelVars, trackerVars, busVars>>

\* the fields of the scheduler that only Start, Stop and run change
lifeVars == <<sMaxUpdates, sRunning, sStopCh, sLoop, sLife>>

\* the process has not died of a panic
Alive == sLife # "panicked"

\* a scheduler returned by scheduler.New(config, orch, reg)
SchedulerInit ==
  /\ registryList = [ok |-> TRUE, devs |-> FirstN(1)]
  /\ EngineIdle

\* Scheduler.Schedule(ctx, update)
Scheduler_Schedule(update) ==
  LET err == ScheduleErr(sUpdates, update)
      entry == [update |-> update,
                status |-> InitialStatus(update).status,
                createdAt |-> now,
                startedAt |-> NoTime,
                hasCancelFn |-> FALSE,
                dispatched |-> 0]
  IN  /\ Alive
      /\ sUpdates' =
           IF err = "nil"
           THEN [i \in (DOMAIN sUpdates) \cup {update.ID} |->
                   IF i = update.ID THEN entry ELSE sUpdates[i]]
           ELSE sUpdates
      /\ sLast' = [op |-> "Schedule", update |-> update, err |-> err]
      /\ UNCHANGED <<lifeVars, sExec, nonSchedVars>>

\* cancelFn() of the entries in ids at time t: the ctx of their executions
\* is done; calling it again changes nothing. A goroutine parked in the
\* select between two phases is woken by the case that becomes ready
\* first: the closed ctx.Done() if the timer has not fired yet, the timer
\* if a positive wait was already over; with a wait of zero either case
\* can be the first
CancelCtx(exec, ids, t) ==
  [i \in DOMAIN exec |->
     IF i \in ids /\ ~exec[i].ctxDone
     THEN [exec[i] EXCEPT !.ctxDone = TRUE,
                          !.woken =
                            IF exec[i].pc # "wait" \/ @ # "none" THEN @
                            ELSE IF t < exec[i].waitUntil THEN "ctx"
                            ELSE IF exec[i].waitUntil > exec[i].waitFrom
                            THEN "timer"
                            ELSE "none",
                          !.cancelled = [pc |-> exec[i].pc,
                                         phase |-> exec[i].phase,
                                         at |-> t]]
     ELSE exec[i]]

\* Scheduler.Cancel(ctx, id): calls the entry's cancelFn if it has one and
\* sets the status, whatever it was
Scheduler_Cancel(id) ==
  /\ Alive
  /\ IF id \notin DOMAIN sUpdates
     THEN /\ sLast' = [op |-> "Cancel", id |-> id, err |-> "not found"]
          /\ UNCHANGED <<sUpdates, sExec>>
     ELSE /\ sLast' = [op |-> "Cancel", id |-> id, err |-> "nil"]
          /\ sExec' = IF sUpdates[id].hasCancelFn
                      THEN CancelCtx(sExec, {id}, now)
                      ELSE sExec
          /\ sUpdates' = [sUpdates EXCEPT ![id].status = StatusCancelled]
  /\ UNCHANGED <<lifeVars, nonSchedVars>>

\* Scheduler.Status(ctx, id): the engine's GetStatus for an update that is
\* in progress, the recorded status with zero counters otherwise
StatusOf(table, ups, id) ==
  IF id \notin DOMAIN table
  THEN [err |-> "not found", status |-> NotFound]
  ELSE IF table[id].status = StatusInProgress
  THEN LET st == GetStatus(ups, id)
       IN  [err |-> IF st.found THEN "nil" ELSE "update not found",
            status |-> st]
  ELSE [err |-> "nil",
        status |-> [found |-> TRUE,
                    UpdateID |-> id,
                    Status |-> table[id].status,
                    TotalDevices |-> 0,
                    Completed |-> 0,
                    Failed |-> 0,
                    StartedAt |-> table[id].createdAt]]

Scheduler_Status(id) ==
  /\ Alive
  /\ sLast' = [op |-> "Status", id |-> id,
               err |-> StatusOf(sUpdates, updates, id).err,
               status |-> StatusOf(sUpdates, updates, id).status]
  /\ UNCHANGED <<sUpdates, lifeVars, sExec, nonSchedVars>>

\* Scheduler.Start(ctx) by the goroutine that owns the scheduler
Scheduler_Start ==
  /\ sLife = "idle"
  /\ IF sRunning
     THEN /\ sLast' = [op |-> "Start", err |-> "scheduler already running"]
          /\ UNCHANGED <<sRunning, sLoop>>
     ELSE /\ sLast' = [op |-> "Start", err |-> "nil"]
          /\ sRunning' = TRUE
          /\ sLoop' = "live"
  /\ UNCHANGED <<sUpdates, sMaxUpdates, sStopCh, sLife, sExec, nonSchedVars>>

\* Scheduler.Stop() up to wg.Wait(): closing a closed channel panics
Scheduler_Stop ==
  /\ sLife = "idle"
  /\ IF ~sRunning
     THEN /\ sLast' = [op |-> "Stop", err |-> "scheduler not running"]
          /\ UNCHANGED <<sRunning, sStopCh, sLife>>
     ELSE /\ sRunning' = FALSE
          /\ IF sStopCh = "closed"
             THEN /\ sLife' = "panicked"
                  /\ sLast' = [op |-> "Stop", err |-> "panic"]
                  /\ UNCHANGED sStopCh
             ELSE /\ sStopCh' = "closed"
                  /\ sLife' = "stopWait"
                  /\ sLast' = [op |-> "Stop", err |-> "waiting"]
  /\ UNCHANGED <<sUpdates, sMaxUpdates, sLoop, sExec, nonSchedVars>>

\* Scheduler.Stop() from the return of wg.Wait(): run and every execution
\* have returned; the entries that still have a cancelFn are cancelled
Scheduler_StopReturn ==
  /\ sLife = "stopWait"
  /\ sLoop = "none"
  /\ sExec = <<>>
  /\ sExec' = CancelCtx(sExec,
                        {i \in DOMAIN sUpdates : sUpdates[i].hasCancelFn},
                        now)
  /\ sLife' = "idle"
  /\ sLast' = [op |-> "Stop", err |-> "nil"]
  /\ UNCHANGED <<sUpdates, sMaxUpdates, sRunning, sStopCh, sLoop,
                 nonSchedVars>>

\* an update window that also admits the instant of its end
IsInUpdateWindow_EndInclusive(update, t) ==
  /\ update.WindowStart # NoTime => t >= update.WindowStart
  /\ update.WindowEnd # NoTime => t <= update.WindowEnd

\* Scheduler.isInUpdateWindow(update, now)
IsInUpdateWindow(update, t) ==
  IF update.WindowStart = NoTime /\ update.WindowEnd = NoTime
  THEN TRUE
  ELSE IF update.WindowStart # NoTime /\ update.WindowEnd = NoTime
  THEN ~(t < update.WindowStart)
  ELSE IF update.WindowStart = NoTime /\ update.WindowEnd # NoTime
  THEN t < update.WindowEnd
  ELSE ~(t < update.WindowStart) /\ t < update.WindowEnd

\* a tick that runs a scheduled update from its ScheduledAt on, whatever
\* its window
ShouldRun_IgnoresWindow(update, t) ==
  \/ update.Strategy \in {StrategyImmediate, StrategyProgressive}
  \/ /\ update.Strategy = StrategyScheduled
     /\ update.ScheduledAt # NoTime
     /\ ~(t < update.ScheduledAt)

\* a tick that runs a scheduled update only after its ScheduledAt has
\* passed
ShouldRun_StrictlyAfter(update, t) ==
  \/ update.Strategy \in {StrategyImmediate, StrategyProgressive}
  \/ /\ update.Strategy = StrategyScheduled
     /\ update.ScheduledAt # NoTime
     /\ t > update.ScheduledAt
     /\ IsInUpdateWindow(update, t)

\* a tick that treats on_connect like immediate
ShouldRun_OnConnectToo(update, t) ==
  \/ update.Strategy \in {StrategyImmediate, StrategyProgressive,
                          StrategyOnConnect}
  \/ /\ update.Strategy = StrategyScheduled
     /\ update.ScheduledAt # NoTime
     /\ ~(t < update.ScheduledAt)
     /\ IsInUpdateWindow(update, t)

\* the switch on the strategy in processScheduledUpdates: shouldRun
ShouldRun(update, t) ==
  IF update.Strategy = StrategyImmediate THEN TRUE
  ELSE IF update.Strategy = StrategyScheduled
  THEN /\ update.ScheduledAt # NoTime
       /\ ~(t < update.ScheduledAt)
       /\ IsInUpdateWindow(update, t)
  ELSE IF update.Strategy = StrategyProgressive THEN TRUE
  ELSE FALSE

\* Scheduler.countRunningUpdates()
CountRunningUpdates(table) ==
  Cardinality({i \in DOMAIN table : table[i].status = StatusInProgress})

\* the orders in which a range over the map s.updates can visit its keys
Orders(S) ==
  {o \in [1..Cardinality(S) -> S] :
     \A i, j \in 1..Cardinality(S) : o[i] = o[j] => i = j}

\* a tick that skips only the updates that are running
Dispatchable_UnlessRunning(status) == status # StatusInProgress

\* the statuses processScheduledUpdates does not skip
Dispatchable(status) ==
  ~(status # StatusPending /\ status # StatusScheduled)

\* the loop of processScheduledUpdates visiting the ids in order: the ids
\* it hands to executeUpdate
RECURSIVE ProcessInOrder(_, _, _, _, _)
ProcessInOrder(order, table, runningCount, maxUpdates, t) ==
  IF order = <<>> THEN {}
  ELSE
    LET id == Head(order)
    IN  IF ~Dispatchable(table[id].status)
        THEN ProcessInOrder(Tail(order), table, runningCount, maxUpdates, t)
        ELSE IF runningCount >= maxUpdates THEN {}
        ELSE IF ShouldRun(table[id].update, t)
        THEN {id} \cup ProcessInOrder(Tail(order), table, runningCount + 1,
                                      maxUpdates, t)
        ELSE ProcessInOrder(Tail(order), table, runningCount, maxUpdates, t)

\* the goroutine that executeUpdate starts, before it has run. slices
\* holds the phaseDevices computed so far, as the first index and the
\* length of each slice and the time it was computed at; woken is the case
\* of the select between two phases that has become ready first;
\* cancelled records where the goroutine was when its ctx was cancelled
ExecStarted ==
  [pc |-> "run", phase |-> 0, deviceOffset |-> 0, slices |-> <<>>,
   waitFrom |-> NoTime, waitUntil |-> NoTime, woken |-> "none",
   ctxDone |-> FALSE,
   cancelled |-> [pc |-> "none", phase |-> 0, at |-> NoTime],
   err |-> "nil"]

\* the ticker of Scheduler.run fires: processScheduledUpdates(ctx) with
\* executeUpdate for each update it decides to run, under s.mu
Run_Tick ==
  /\ Alive
  /\ sLoop = "live"
  /\ \E order \in Orders(DOMAIN sUpdates) :
       LET started == ProcessInOrder(order, sUpdates,
                                     CountRunningUpdates(sUpdates),
                                     sMaxUpdates, now)
       IN  /\ sUpdates' =
                [i \in DOMAIN sUpdates |->
                   IF i \in started
                   THEN [sUpdates[i] EXCEPT !.status = StatusInProgress,
                                            !.startedAt = now,
                                            !.hasCancelFn = TRUE,
                                            !.dispatched = @ + 1]
                   ELSE sUpdates[i]]
           /\ sExec' = [i \in (DOMAIN sExec) \cup started |->
                          IF i \in started THEN ExecStarted ELSE sExec[i]]
  /\ sLast' = [op |-> "tick", at |-> now]
  /\ UNCHANGED <<lifeVars, nonSchedVars>>

\* Scheduler.run receives from the closed stopCh and returns
Run_Exit ==
  /\ Alive
  /\ sLoop = "live"
  /\ sStopCh = "closed"
  /\ sLoop' = "none"
  /\ UNCHANGED <<sUpdates, sLast, sMaxUpdates, sRunning, sStopCh, sLife,
                 sExec, nonSchedVars>>

\* a phase whose share rounds down to no device gets none
PhaseDeviceCount_NoMinimum(totalDevices, percentage, deviceOffset) ==
  LET share == (totalDevices * percentage) \div 100
  IN  IF deviceOffset + share > totalDevices
      THEN totalDevices - deviceOffset
      ELSE share

\* phaseDeviceCount in executeProgressive
PhaseDeviceCount(totalDevices, percentage, deviceOffset) ==
  LET share == (totalDevices * percentage) \div 100
      atLeastOne == IF share = 0 THEN 1 ELSE share
  IN  IF deviceOffset + atLeastOne > totalDevices
      THEN totalDevices - deviceOffset
      ELSE atLeastOne

\* one iteration of the phase loop of executeProgressive, up to its select
\* or, for the last phase, to the return; nothing is executed for the
\* devices of the phase
PhaseStep(e, update, totalDevices, phase, t) ==
  LET count == PhaseDeviceCount(totalDevices,
                                update.RolloutPhases[phase].Percentage,
                                e.deviceOffset)
      slice == [from |-> e.deviceOffset, count |-> count, at |-> t]
      wait == update.RolloutPhases[phase].WaitTime
  IN  IF phase < Len(update.RolloutPhases)
      THEN [e EXCEPT !.pc = "wait", !.phase = phase,
                     !.slices = Append(@, slice),
                     !.waitFrom = t,
                     !.waitUntil = t + wait,
                     !.woken = IF e.ctxDone /\ wait > 0
                               THEN "ctx" ELSE "none"]
      ELSE [e EXCEPT !.pc = "finish", !.phase = phase,
                     !.slices = Append(@, slice),
                     !.deviceOffset = e.deviceOffset + count,
                     !.err = "nil"]

\* executeUpdateStrategy(ctx, update) up to its return or its first select
ExecRun(e, update, t) ==
  IF update.Strategy \in {StrategyImmediate, StrategyScheduled,
                          StrategyOnConnect}
  THEN [e EXCEPT !.pc = "finish", !.err = "nil"]
  ELSE IF update.Strategy # StrategyProgressive
  THEN [e EXCEPT !.pc = "finish", !.err = "unsupported strategy"]
  ELSE IF Len(update.RolloutPhases) = 0
  THEN [e EXCEPT !.pc = "finish",
                 !.err = "progressive strategy requires rollout phases"]
  ELSE IF ~registryList.ok
  THEN [e EXCEPT !.pc = "finish", !.err = "failed to list devices"]
  ELSE IF Len(registryList.devs) = 0
  THEN [e EXCEPT !.pc = "finish", !.err = "no devices match filter"]
  ELSE PhaseStep(e, update, Len(registryList.devs), 1, t)

\* the goroutine of executeUpdate runs executeUpdateStrategy
Exec_Run(id) ==
  /\ Alive
  /\ id \in DOMAIN sExec
  /\ sExec[id].pc = "run"
  /\ sExec' = [sExec EXCEPT ![id] = ExecRun(@, sUpdates[id].update, now)]
  /\ UNCHANGED <<sUpdates, sLast, lifeVars, nonSchedVars>>

\* a timer that is ready as soon as it is created
TimerFired_AtOnce(e, t) == TRUE

\* the channel of time.After(phase.WaitTime) is ready at time t
TimerFired(e, t) == t >= e.waitUntil

\* the select between two phases receives from time.After(phase.WaitTime)
Exec_WaitOver(id) ==
  /\ Alive
  /\ id \in DOMAIN sExec
  /\ sExec[id].pc = "wait"
  /\ sExec[id].woken # "ctx"
  /\ TimerFired(sExec[id], now)
  /\ LET update == sUpdates[id].update
         e == sExec[id]
         count == PhaseDeviceCount(Len(registryList.devs),
                                   update.RolloutPhases[e.phase].Percentage,
                                   e.deviceOffset)
     IN  sExec' = [sExec EXCEPT ![id] =
                     PhaseStep([e EXCEPT !.deviceOffset = @ + count],
                               update, Len(registryList.devs),
                               e.phase + 1, now)]
  /\ UNCHANGED <<sUpdates, sLast, lifeVars, nonSchedVars>>

\* the select between two phases receives from ctx.Done()
Exec_WaitCancelled(id) ==
  /\ Alive
  /\ id \in DOMAIN sExec
  /\ sExec[id].pc = "wait"
  /\ sExec[id].woken # "timer"
  /\ sExec[id].ctxDone
  /\ sExec' = [sExec EXCEPT ![id].pc = "finish",
                            ![id].err = "context canceled"]
  /\ UNCHANGED <<sUpdates, sLast, lifeVars, nonSchedVars>>

\* the status the goroutine of executeUpdate records for err
FinalStatus(err) ==
  IF err # "nil" THEN StatusFailed ELSE StatusCompleted

\* the goroutine of executeUpdate records the final status under s.mu,
\* clears cancelFn and returns
Exec_Finish(id) ==
  /\ Alive
  /\ id \in DOMAIN sExec
  /\ sExec[id].pc = "finish"
  /\ sUpdates' = [sUpdates EXCEPT ![id].status = FinalStatus(sExec[id].err),
                                  ![id].hasCancelFn = FALSE]
  /\ sExec' = [i \in (DOMAIN sExec) \ {id} |-> sExec[i]]
  /\ UNCHANGED <<sLast, lifeVars, nonSchedVars>>

SchedulerNext ==
  \/ \E update \in UpdateInputs : Scheduler_Schedule(update)
  \/ \E id \in ScheduleIDs : Scheduler_Cancel(id)

\* any sequence of Schedule and Cancel calls on a scheduler that was not
\* started
SpecScheduler == SchedulerInit /\ [][SchedulerNext]_vars

\* the ids of the updates given to a started scheduler
RunIDs == {"u1", "u2"}

\* the updates given to a started scheduler: immediate, on_connect, and
\* progressive with and without phases
RunInputs ==
  {UpdateOf(id, strategy, NoTime, NoTime, NoTime, <<>>) :
     id \in RunIDs, strategy \in {StrategyImmediate, StrategyOnConnect}}
  \cup
  {UpdateOf(id, StrategyProgressive, NoTime, NoTime, NoTime, phases) :
     id \in RunIDs,
     phases \in {<<>>, <<PhaseOf(50, 0), PhaseOf(100, 0)>>}}

\* a scheduler returned by scheduler.New with a configured
\* MaxConcurrentUpdates, over an engine that was built and not called
SchedulerRunInit ==
  /\ registryList = [ok |-> TRUE, devs |-> FirstN(1)]
  /\ EngineBuilt
  /\ CallersIdle
  /\ \E maxUpdates \in 1..MaxUpdatesBound : SchedulerNew(maxUpdates)

SchedulerRunNext ==
  \/ \E update \in RunInputs : Scheduler_Schedule(update)
  \/ \E id \in RunIDs : Scheduler_Cancel(id)
  \/ \E id \in RunIDs : Scheduler_Status(id)
  \/ Scheduler_Start
  \/ Scheduler_Stop
  \/ Scheduler_StopReturn
  \/ Run_Tick
  \/ Run_Exit
  \/ \E id \in RunIDs : Exec_Run(id)
  \/ \E id \in RunIDs : Exec_WaitOver(id)
  \/ \E id \in RunIDs : Exec_WaitCancelled(id)
  \/ \E id \in RunIDs : Exec_Finish(id)

\* any interleaving of calls on a scheduler with its loop and its
\* executions, at one reading of the clock
SpecSchedulerRun == SchedulerRunInit /\ [][SchedulerRunNext]_vars

\* ------------------------------------------------------------ event bus
\* everything a call on the bus leaves alone
nonBusVars ==
  <<engineVars, retryVars, cancelVars, trackerVars, schedVars>>

RECURSIVE SumOver(_, _)
SumOver(f, S) ==
  IF S = {} THEN 0
  ELSE LET x == CHOOSE y \in S : TRUE
       IN  f[x] + SumOver(f, S \ {x})

\* the number of Subscribe calls made so far
Subscriptions == SumOver([t \in EventTypes |-> Len(bHandlers[t])], EventTypes)

\* the number of handler goroutines that have not returned
LiveHandlers == SumOver(bLive, HandlerIDs)

\* a Publish that reads the handlers of every event type
HandlersFor_AllTypes(handlers, type) ==
  LET other == CHOOSE t \in EventTypes : t # type
  IN  handlers[type] \o handlers[other]

\* handlers := b.handlers[event.Type]
HandlersFor(handlers, type) == handlers[type]

\* a bus created by events.NewBus
BusInit ==
  /\ registryList = [ok |-> TRUE, devs |-> FirstN(1)]
  /\ EngineIdle

\* Bus.Subscribe(eventType, handler)
Bus_Subscribe(type, h) ==
  /\ Subscriptions < MaxSubscriptions
  /\ bHandlers' = [bHandlers EXCEPT ![type] = Append(@, h)]
  /\ UNCHANGED <<bPub, bLive, nonBusVars>>

\* Bus.Publish(ctx, event) up to the loop: the handlers of event.Type are
\* read under the read lock. atCall records what was subscribed for the
\* type when the call was made
Publish_Begin(type) ==
  /\ bPub.pc = "idle"
  /\ LiveHandlers + Len(bHandlers[type]) <= MaxLiveHandlers
  /\ bPub' = [pc |-> "loop", type |-> type,
              handlers |-> HandlersFor(bHandlers, type),
              invoked |-> <<>>, atCall |-> bHandlers[type],
              returned |-> FALSE]
  /\ UNCHANGED <<bHandlers, bLive, nonBusVars>>

\* one iteration of the loop of Publish: go handler.Handle(ctx, event)
Publish_Go ==
  /\ bPub.pc = "loop"
  /\ Len(bPub.invoked) < Len(bPub.handlers)
  /\ LET h == bPub.handlers[Len(bPub.invoked) + 1]
     IN  /\ bPub' = [bPub EXCEPT !.invoked = Append(@, h)]
         /\ bLive' = [bLive EXCEPT ![h] = @ + 1]
  /\ UNCHANGED <<bHandlers, nonBusVars>>

\* the loop of Publish is over and Publish returns
Publish_Return ==
  /\ bPub.pc = "loop"
  /\ Len(bPub.invoked) = Len(bPub.handlers)
  /\ bPub' = [bPub EXCEPT !.pc = "idle", !.returned = TRUE]
  /\ UNCHANGED <<bHandlers, bLive, nonBusVars>>

\* a Handle goroutine returns; nothing obliges it to
Handler_Return(h) ==
  /\ bLive[h] > 0
  /\ bLive' = [bLive EXCEPT ![h] = @ - 1]
  /\ UNCHANGED <<bHandlers, bPub, nonBusVars>>

BusNext ==
  \/ \E type \in EventTypes, h \in HandlerIDs : Bus_Subscribe(type, h)
  \/ \E type \in EventTypes : Publish_Begin(type)
  \/ Publish_Go
  \/ Publish_Return
  \/ \E h \in HandlerIDs : Handler_Return(h)

\* any interleaving of Subscribe calls, one publisher and the handlers
SpecBus == BusInit /\ [][BusNext]_vars

\* the goroutine that called Publish keeps running; a handler may never
\* return
SpecBusFair ==
  /\ SpecBus
  /\ WF_vars(Publish_Go)
  /\ WF_vars(Publish_Return)

\* ------------------------------------------------------------ retry.Do
CtxErr == [kind |-> "ctx", n |-> 0]

\* what fn can return: nil, a transient error (network, 5xx), or an error
\* wrapped in retry.NonRetryable (4xx)
Outcomes == {"nil", "transient", "nonretryable"}

RECURSIVE Power(_, _)
\* math.Pow for a natural exponent
Power(base, n) == IF n = 0 THEN 1 ELSE base * Power(base, n - 1)

\* a backoff that is not capped by MaxDelay
CalculateBackoff_Uncapped(config, n) ==
  (config.InitialDelay * Power(config.Multiplier.num, n))
    \div Power(config.Multiplier.den, n)

\* calculateBackoff(config, attempt): the product is computed in float64,
\* compared with MaxDelay and truncated to a whole Duration
CalculateBackoff(config, n) ==
  LET num == config.InitialDelay * Power(config.Multiplier.num, n)
      den == Power(config.Multiplier.den, n)
  IN  IF num > config.MaxDelay * den
      THEN config.MaxDelay
      ELSE num \div den

\* a caller invokes retry.Do(ctx, config, fn) with delays of
\* 1..MaxDelayBound units and a multiplier of 1/2, 1, 3/2, 2 or 3
RetryInit ==
  /\ updateID = "u1"
  /\ registryList = [ok |-> TRUE, devs |-> FirstN(1)]
  /\ maxConcurrent = 1
  /\ seekOK = TRUE
  /\ EngineInit
  /\ rMaxAttempts \in 0..MaxAttemptsBound
  /\ rBackoff \in
       {[InitialDelay |-> initial, MaxDelay |-> max,
         Multiplier |-> [num |-> n, den |-> d]] :
          initial \in 1..MaxDelayBound, max \in 1..MaxDelayBound,
          n \in 1..3, d \in 1..2}
  /\ delays = <<>>
  /\ rpc = "loop"
  /\ attempt = 0
  /\ calls = 0
  /\ lastErr = NoErr
  /\ sleeps = 0
  /\ ctxDone = FALSE
  /\ woken = "none"
  /\ outcomes = <<>>
  /\ cancelledAt = -1
  /\ rResult = NoErr
  /\ RestIdle

\* for attempt := 0; attempt < config.MaxAttempts: the loop is entered
\* and fn() is invoked
Do_Invoke ==
  /\ rpc = "loop"
  /\ attempt < rMaxAttempts
  /\ calls' = calls + 1
  /\ rpc' = "fn"
  /\ UNCHANGED <<engineVars, restVars, rMaxAttempts, rBackoff, attempt,
                 lastErr, sleeps, delays, ctxDone, woken, outcomes,
                 cancelledAt, rResult>>

\* the loop condition fails: return lastErr
Do_Exhausted ==
  /\ rpc = "loop"
  /\ attempt >= rMaxAttempts
  /\ rResult' = lastErr
  /\ rpc' = "done"
  /\ UNCHANGED <<engineVars, restVars, rMaxAttempts, rBackoff, attempt, calls,
                 lastErr, sleeps, delays, ctxDone, woken, outcomes,
                 cancelledAt>>

\* a Do that keeps the first error instead of the last
RecordErr_KeepFirst(old, err) == IF old = NoErr THEN err ELSE old

\* lastErr = err
RecordErr(old, err) == err

\* case <-ctx.Done() of the select: a context that is already cancelled
\* when the select is entered is seen at once (the delay is positive)
SelectEntry(done) == IF done THEN "ctx" ELSE "none"

\* fn() returns o. nil: return nil. An error: lastErr = err; break after
\* the last attempt, else compute the delay and enter the select
Fn_Return(o) ==
  /\ rpc = "fn"
  /\ outcomes' = Append(outcomes, o)
  /\ IF o = "nil"
     THEN /\ rResult' = NoErr
          /\ rpc' = "done"
          /\ UNCHANGED <<lastErr, sleeps, delays, woken>>
     ELSE /\ lastErr' = RecordErr(lastErr, [kind |-> o, n |-> calls])
          /\ IF attempt = rMaxAttempts - 1
             THEN /\ rResult' = lastErr'
                  /\ rpc' = "done"
                  /\ UNCHANGED <<sleeps, delays, woken>>
             ELSE /\ sleeps' = sleeps + 1
                  /\ delays' = Append(delays,
                                      CalculateBackoff(rBackoff, attempt))
                  /\ woken' = SelectEntry(ctxDone)
                  /\ rpc' = "select"
                  /\ UNCHANGED rResult
  /\ UNCHANGED <<engineVars, restVars, rMaxAttempts, rBackoff, attempt, calls,
                 ctxDone, cancelledAt>>

\* the timer of time.After(delay) fires while Do is parked in the select
Timer_Fire ==
  /\ rpc = "select"
  /\ woken = "none"
  /\ woken' = "timer"
  /\ UNCHANGED <<engineVars, restVars, rMaxAttempts, rBackoff, rpc, attempt,
                 calls, lastErr, sleeps, delays, ctxDone, outcomes,
                 cancelledAt, rResult>>

\* a sleep that does not select on ctx.Done()
WakeOnCancel_Ignored(pc, wk) == wk

\* closing ctx.Done() wakes a goroutine parked in the select on that case
WakeOnCancel(pc, wk) == IF pc = "select" /\ wk = "none" THEN "ctx" ELSE wk

\* the owner of ctx cancels it
Ctx_Cancel ==
  /\ rpc # "done"
  /\ ~ctxDone
  /\ ctxDone' = TRUE
  /\ woken' = WakeOnCancel(rpc, woken)
  /\ cancelledAt' = IF rpc = "select" /\ woken = "none" THEN calls
                    ELSE cancelledAt
  /\ UNCHANGED <<engineVars, restVars, rMaxAttempts, rBackoff, rpc, attempt,
                 calls, lastErr, sleeps, delays, outcomes, rResult>>

\* the select returns: the timer case continues with the next attempt,
\* the ctx.Done() case returns ctx.Err()
Do_Wake ==
  /\ rpc = "select"
  /\ woken # "none"
  /\ IF woken = "ctx"
     THEN /\ rResult' = CtxErr
          /\ rpc' = "done"
          /\ UNCHANGED attempt
     ELSE /\ attempt' = attempt + 1
          /\ rpc' = "loop"
          /\ UNCHANGED rResult
  /\ woken' = "none"
  /\ UNCHANGED <<engineVars, restVars, rMaxAttempts, rBackoff, calls, lastErr,
                 sleeps, delays, ctxDone, outcomes, cancelledAt>>

RetryNext ==
  \/ Do_Invoke
  \/ Do_Exhausted
  \/ \E o \in Outcomes : Fn_Return(o)
  \/ Timer_Fire
  \/ Ctx_Cancel
  \/ Do_Wake

SpecRetry == RetryInit /\ [][RetryNext]_vars

\* ======================================================== properties
Tracked == updateID \in DOMAIN updates

DeviceStatusOf(d) ==
  IF Tracked /\ d \in DOMAIN updates[updateID].deviceProgress
  THEN updates[updateID].deviceProgress[d].Status
  ELSE StatusNone

Terminal(st) == st \in {StatusCompleted, StatusFailed}

\* workers inside a device task, from its start to the return of Push
Executing == {w \in WorkerIDs :
                wpc[w] \in {"markInProgress", "pubDeviceStarted", "seek",
                            "push", "pushing"}}

\* C1: at every moment of a run the number of device tasks between their
\* start and the return of their Push is at most max_concurrent
C1_AtMostMaxConcurrentExecuting ==
  Cardinality(Executing) <= maxConcurrent

\* two tasks are inside Push at the same time under max_concurrent = 2
C1_Witness ==
  /\ maxConcurrent = 2
  /\ Cardinality({w \in WorkerIDs : wpc[w] = "pushing"}) = 2

\* C2: Progress.Complete is called and update.completed is published only
\* after every device task recorded its terminal status and published its
\* terminal event, so the counts of update.completed sum to total_devices
C2_CompletedAfterAllDevicesTerminal ==
  /\ (Tracked /\ updates[updateID].ended) =>
       \A d \in Range(devices) : Terminal(DeviceStatusOf(d))
  /\ \A i \in 1..Len(evUpdateCompleted) :
       /\ \A d \in Range(devices) :
            /\ Terminal(DeviceStatusOf(d))
            /\ evDeviceCompleted[d] + evDeviceFailed[d] = 1
       /\ evUpdateCompleted[i].completed + evUpdateCompleted[i].failed
            = Len(devices)

\* C3: exactly one update.started is published in a run that resolves a
\* device, and no device.* event is published before it
C3_UpdateStartedOnceAndFirst ==
  /\ evUpdateStarted <= 1
  /\ (\E d \in DeviceIDs :
        evDeviceStarted[d] + evDeviceCompleted[d] + evDeviceFailed[d] > 0)
       => evUpdateStarted = 1
  /\ (mpc = "returned" /\ Len(devices) > 0) => evUpdateStarted = 1

\* update.started was published and device events of two devices followed
C3_Witness ==
  /\ evUpdateStarted = 1
  /\ \A d \in DeviceIDs : evDeviceStarted[d] = 1
  /\ \E d \in DeviceIDs : evDeviceFailed[d] = 1

\* C4: with a seekable payload and max_concurrent >= 2, every Push that
\* returns success has read exactly the bytes 0..L-1 of the payload
C4_ByteExactDelivery ==
  [][(seekOK /\ maxConcurrent >= 2) =>
       \A w \in WorkerIDs :
         (wpc[w] = "pushing" /\ wpc'[w] = "markCompleted")
           => received[wdev[w]] = PayloadBytes]_vars

\* C5: the engine pushes under the retry policy: a device is recorded
\* failed only after max_attempts invocations of Push have all returned an
\* error, so a device whose Push failed once is pushed again
C5_PushRunsUnderRetryPolicy ==
  seekOK =>
    \A d \in Range(devices) :
      DeviceStatusOf(d) = StatusFailed =>
        /\ pushCalls[d] = RetryAttempts
        /\ pushErrors[d] = RetryAttempts

\* C6: once an invocation of the action has returned a non-retryable
\* error, Do invokes the action no more and begins no backoff sleep
C6_NonRetryableReturnsAtOnce ==
  \A i \in 1..Len(outcomes) :
    outcomes[i] = "nonretryable" =>
      /\ calls = i
      /\ sleeps = i - 1
      /\ rpc = "done"

\* C7: for max_attempts >= 1 and no cancellation, Do invokes the action at
\* most max_attempts times, returns nil at the first invocation that
\* succeeds, and after max_attempts failures returns the error of the last
\* invocation without sleeping after it
C7_AttemptsBoundedLastErrorReturned ==
  (rMaxAttempts >= 1 /\ ~ctxDone) =>
    /\ calls <= rMaxAttempts
    /\ \A i \in 1..Len(outcomes) : outcomes[i] = "nil" => i = calls
    /\ rpc = "done" =>
         /\ Len(outcomes) = calls
         /\ calls >= 1
         /\ sleeps = calls - 1
         /\ IF outcomes[calls] = "nil"
            THEN rResult = NoErr
            ELSE /\ calls = rMaxAttempts
                 /\ rResult = [kind |-> outcomes[calls], n |-> calls]

\* all attempts of a Do with several attempts failed and it returned
C7_Witness ==
  /\ rMaxAttempts >= 2
  /\ ~ctxDone
  /\ rpc = "done"
  /\ calls = rMaxAttempts
  /\ rResult.n = calls

\* C8: if ctx is cancelled while Do sleeps between two attempts, Do returns
\* ctx.Err() without the timer firing and never invokes the action again
C8_CancelDuringSleepReturnsCause ==
  cancelledAt >= 0 =>
    /\ calls = cancelledAt
    /\ rpc \in {"select", "done"}
    /\ woken # "timer"
    /\ rpc = "done" => rResult = CtxErr

\* Do returned after a cancellation during its sleep
C8_Witness ==
  /\ cancelledAt >= 1
  /\ rpc = "done"
  /\ rResult = CtxErr

\* C9: a run that resolved devices returns nil whatever the pushes did,
\* and when it returns every device is completed or failed
C9_ReturnsNilWithAllDevicesTerminal ==
  (mpc = "returned" /\ Len(devices) > 0) =>
    /\ result = "nil"
    /\ Tracked
    /\ updates[updateID].completedDevices + updates[updateID].failedDevices
         = updates[updateID].totalDevices
    /\ updates[updateID].inProgressDevices = 0
    /\ \A d \in Range(devices) : Terminal(DeviceStatusOf(d))

\* a run returned with one device completed and one failed
C9_Witness ==
  /\ mpc = "returned"
  /\ result = "nil"
  /\ Tracked
  /\ updates[updateID].completedDevices >= 1
  /\ updates[updateID].failedDevices >= 1

C11_EveryDeviceRunsOnceToOneOutcome ==
  /\ \A d \in DeviceIDs :
       /\ evDeviceStarted[d] <= 1
       /\ pushCalls[d] <= 1
       /\ evDeviceCompleted[d] + evDeviceFailed[d] <= 1
  /\ (mpc = "returned" /\ Len(devices) > 0) =>
       \A d \in Range(devices) :
         /\ evDeviceStarted[d] = 1
         /\ evDeviceCompleted[d] + evDeviceFailed[d] = 1
         /\ Terminal(DeviceStatusOf(d))
         /\ (DeviceStatusOf(d) = StatusCompleted) <=>
              (evDeviceCompleted[d] = 1)

\* the Push of device 1 returned an error and device 2 was completed in
\* the same run
C11_Witness ==
  /\ mpc = "returned"
  /\ pushErrors[1] = 1
  /\ evDeviceFailed[1] = 1
  /\ evDeviceCompleted[2] = 1

\* C12: a run with an empty update id, a failing Registry.List or an empty
\* device list returns an error, and it creates no Progress record,
\* publishes no event and never invokes Push
C12_RejectedRunLeavesNoTrace ==
  (updateID = "" \/ ~registryList.ok \/ Len(registryList.devs) = 0) =>
    /\ updates = <<>>
    /\ evUpdateStarted = 0
    /\ evUpdateCompleted = <<>>
    /\ \A d \in DeviceIDs :
         /\ evDeviceStarted[d] = 0
         /\ evDeviceCompleted[d] = 0
         /\ evDeviceFailed[d] = 0
         /\ pushCalls[d] = 0
    /\ mpc = "returned" => result \notin {"", "nil"}

\* a run whose registry matched no device has returned its error
C12_Witness ==
  /\ updateID # ""
  /\ registryList.ok
  /\ mpc = "returned"
  /\ result = "no devices match the filter"

\* C13: after the ctx of a run was cancelled, a device whose task had not
\* begun is not pushed to and no event is published for it
C13_CancelledRunStartsNoNewTask ==
  ctxDone =>
    \A d \in pendingAtCancel :
      /\ pushCalls[d] = 0
      /\ evDeviceStarted[d] = 0
      /\ evDeviceCompleted[d] = 0
      /\ evDeviceFailed[d] = 0

\* the counters of a tracked update that count devices
Counted(u) == u.completedDevices + u.failedDevices + u.inProgressDevices

\* the devices of a tracked update recorded in status st
DevicesIn(u, st) ==
  {d \in DOMAIN u.deviceProgress : u.deviceProgress[d].Status = st}

RECURSIVE SumDeviceBytes(_, _)
\* the sum of the BytesTransferred of the devices ds in the map dp
SumDeviceBytes(dp, ds) ==
  IF ds = {} THEN 0
  ELSE LET d == CHOOSE x \in ds : TRUE
       IN  dp[d].BytesTransferred + SumDeviceBytes(dp, ds \ {d})

\* C14: every tracked update has completed + failed + in_progress <=
\* total_devices, after any sequence of tracker calls
C14_CountersWithinTotal ==
  \A id \in DOMAIN updates : Counted(updates[id]) <= updates[id].totalDevices

\* C15: each of the counters in_progress, completed and failed equals the
\* number of devices recorded in that status and is never negative, after
\* any sequence of UpdateDevice calls
C15_CountersMatchDeviceStatuses ==
  \A id \in DOMAIN updates :
    LET u == updates[id]
    IN  /\ u.inProgressDevices = Cardinality(DevicesIn(u, StatusInProgress))
        /\ u.completedDevices = Cardinality(DevicesIn(u, StatusCompleted))
        /\ u.failedDevices = Cardinality(DevicesIn(u, StatusFailed))
        /\ u.inProgressDevices >= 0
        /\ u.completedDevices >= 0
        /\ u.failedDevices >= 0

\* a device that had finished (its end time is stamped) is in_progress
\* again, next to a completed one
C15_Witness ==
  \E id \in DOMAIN updates :
    /\ \E d \in DOMAIN updates[id].deviceProgress :
         /\ updates[id].deviceProgress[d].Status = StatusInProgress
         /\ updates[id].deviceProgress[d].EndTime # NoTime
    /\ updates[id].completedDevices = 1
    /\ updates[id].inProgressDevices = 1

\* C16: the update-level bytes_transferred that get returns is the sum of
\* the bytes arguments of all UpdateDevice calls for the update since Start
C16_UpdateBytesAreSumOfArguments ==
  /\ \A id \in DOMAIN updates :
       GetProgress(updates, id).BytesTransferred = argSum[id]
  /\ tGot.found => tGot.BytesTransferred = argSum[tGot.UpdateID]

\* get returned a total made of the arguments passed for two devices
C16_Witness ==
  /\ tGot.found
  /\ tGot.BytesTransferred = MaxBytesSum
  /\ Cardinality({d \in DOMAIN tGot.DeviceProgress :
                    tGot.DeviceProgress[d].BytesTransferred > 0}) >= 2

\* C17: the device-level bytes_transferred values that get returns are the
\* sums of the arguments passed for each device, so they add up to the sum
\* of all arguments and to the update-level total
C17_DeviceBytesAddUpToUpdateBytes ==
  tGot.found =>
    /\ SumDeviceBytes(tGot.DeviceProgress, DOMAIN tGot.DeviceProgress)
         = argSum[tGot.UpdateID]
    /\ SumDeviceBytes(tGot.DeviceProgress, DOMAIN tGot.DeviceProgress)
         = tGot.BytesTransferred

\* C18: every device recorded as completed or failed has an end time, and
\* it is not earlier than its start time
C18_TerminalDeviceHasEndTime ==
  \A id \in DOMAIN updates :
    \A d \in DOMAIN updates[id].deviceProgress :
      LET dp == updates[id].deviceProgress[d]
      IN  Terminal(dp.Status) =>
            /\ dp.EndTime # NoTime
            /\ dp.EndTime >= dp.StartTime

\* a device first reported at one clock reading failed at a later one
C18_Witness ==
  \E id \in DOMAIN updates :
    \E d \in DOMAIN updates[id].deviceProgress :
      /\ updates[id].deviceProgress[d].Status = StatusFailed
      /\ updates[id].deviceProgress[d].EndTime
           > updates[id].deviceProgress[d].StartTime

\* C19: the Progress that get returns has an estimated end exactly when
\* 1 <= completed + failed < total_devices
C19_EstimatedEndIffPartlyDone ==
  tGot.found =>
    (tGot.hasEstimatedEnd <=>
       /\ 1 <= tGot.CompletedDevices + tGot.FailedDevices
       /\ tGot.CompletedDevices + tGot.FailedDevices < tGot.TotalDevices)

\* C20: Schedule returns an error for an empty id, an id already in the
\* table, strategy scheduled without ScheduledAt and an unknown strategy,
\* and then the table (updates and statuses) is what it was
C20_RejectedScheduleKeepsTable ==
  [][sLast'.op = "Schedule" =>
       LET u == sLast'.update
       IN  (\/ u.ID = ""
            \/ u.ID \in DOMAIN sUpdates
            \/ u.Strategy = StrategyScheduled /\ u.ScheduledAt = NoTime
            \/ u.Strategy \notin {StrategyImmediate, StrategyScheduled,
                                  StrategyProgressive, StrategyOnConnect})
             => /\ sLast'.err # "nil"
                /\ sUpdates' = sUpdates]_vars

\* Schedule refused an id whose entry had been cancelled, and the entry is
\* still the cancelled one
C20_Witness ==
  /\ sLast.op = "Schedule"
  /\ sLast.err = "already scheduled"
  /\ sLast.update.ID \in DOMAIN sUpdates
  /\ sUpdates[sLast.update.ID].status = StatusCancelled
  /\ sUpdates[sLast.update.ID].update # sLast.update

\* the updates given to a scheduler whose clock advances: "u1" with
\* strategy scheduled, any ScheduledAt and any window, and an immediate
\* "u2" that can take the place under the cap
WindowInputs ==
  {UpdateOf("u1", StrategyScheduled, at, start, end, <<>>) :
     at \in 0..MaxClock, start \in {NoTime} \cup (0..MaxClock),
     end \in {NoTime} \cup (0..MaxClock)}
  \cup {UpdateOf("u2", StrategyImmediate, NoTime, NoTime, NoTime, <<>>)}

\* a scheduler that runs one update at a time
SchedulerWindowInit ==
  /\ registryList = [ok |-> TRUE, devs |-> FirstN(1)]
  /\ EngineBuilt
  /\ CallersIdle
  /\ SchedulerNew(1)

\* the updates are scheduled at the first reading of the clock, the
\* scheduled one may be cancelled, and the scheduler is started and not
\* stopped
SchedulerWindowNext ==
  \/ \E update \in WindowInputs : now = 0 /\ Scheduler_Schedule(update)
  \/ Scheduler_Cancel("u1")
  \/ Scheduler_Start
  \/ Run_Tick
  \/ \E id \in RunIDs : Exec_Run(id)
  \/ \E id \in RunIDs : Exec_Finish(id)
  \/ Clock_Tick

\* any interleaving of calls on a scheduler with its loop and its
\* executions while time passes
SpecSchedulerWindow == SchedulerWindowInit /\ [][SchedulerWindowNext]_vars

\* C21: Schedule rejects a progressive update that has no rollout phases,
\* so the table never holds one, whether waiting or in progress
C21_NoProgressiveWithoutPhases ==
  \A id \in DOMAIN sUpdates :
    sUpdates[id].update.Strategy = StrategyProgressive
      => Len(sUpdates[id].update.RolloutPhases) > 0

\* C22: completed, failed and cancelled are final: once an update has one
\* of them, no step of the scheduler gives it another status
C22_TerminalStatusNeverChanges ==
  [][\A id \in DOMAIN sUpdates :
       sUpdates[id].status
           \in {StatusCompleted, StatusFailed, StatusCancelled}
         => sUpdates'[id].status = sUpdates[id].status]_vars

\* the updates that were dispatched and whose executeUpdateStrategy has
\* not returned yet
RunningExecutions == {id \in DOMAIN sExec : sExec[id].pc # "finish"}

\* C23: at most max_concurrent_updates dispatched executions are running
\* at any time
C23_RunningExecutionsWithinCap ==
  Cardinality(RunningExecutions) <= sMaxUpdates

\* now is inside the update window of update, as the specification
\* defines it: both bounds are optional, the start is inclusive and the
\* end is exclusive
InsideWindow(update, t) ==
  /\ update.WindowStart # NoTime => update.WindowStart <= t
  /\ update.WindowEnd # NoTime => t < update.WindowEnd

\* C24: a step moves an update of strategy scheduled from scheduled to
\* in_progress only at a time that is not before its scheduled_at and
\* inside its window
C24_DispatchOnlyWhenDueAndInWindow ==
  [][\A id \in DOMAIN sUpdates :
       /\ sUpdates[id].update.Strategy = StrategyScheduled
       /\ sUpdates[id].status = StatusScheduled
       /\ sUpdates'[id].status = StatusInProgress
       => /\ now >= sUpdates[id].update.ScheduledAt
          /\ InsideWindow(sUpdates[id].update, now)]_vars

\* an update that had to wait for its window was dispatched at the first
\* instant of the window
C24_Witness ==
  \E id \in DOMAIN sUpdates :
    /\ sUpdates[id].update.Strategy = StrategyScheduled
    /\ sUpdates[id].update.WindowStart # NoTime
    /\ sUpdates[id].status = StatusInProgress
    /\ sUpdates[id].startedAt > sUpdates[id].createdAt
    /\ sUpdates[id].startedAt = sUpdates[id].update.WindowStart

\* update is of strategy scheduled and its scheduled_at is not before the
\* end of its window
ScheduledAfterWindow(update) ==
  /\ update.Strategy = StrategyScheduled
  /\ update.WindowEnd # NoTime
  /\ update.ScheduledAt >= update.WindowEnd

\* C25: an update of strategy scheduled whose scheduled_at is at or after
\* its window_end is scheduled after every step, or cancelled, and it
\* becomes cancelled only by the step of a Cancel call for it
C25_ScheduledAfterWindowNeverRuns ==
  [][\A id \in DOMAIN sUpdates' :
       ScheduledAfterWindow(sUpdates'[id].update)
         => \/ sUpdates'[id].status = StatusScheduled
            \/ /\ sUpdates'[id].status = StatusCancelled
               /\ \/ sLast' = [op |-> "Cancel", id |-> id, err |-> "nil"]
                  \/ /\ id \in DOMAIN sUpdates
                     /\ sUpdates[id].status = StatusCancelled]_vars

\* a tick at the update's scheduled_at, which is the end of its window,
\* has left it scheduled
C25_Witness ==
  \E id \in DOMAIN sUpdates :
    /\ ScheduledAfterWindow(sUpdates[id].update)
    /\ sUpdates[id].update.WindowEnd = sUpdates[id].update.ScheduledAt
    /\ sUpdates[id].status = StatusScheduled
    /\ sLast = [op |-> "tick", at |-> sUpdates[id].update.ScheduledAt]

\* C26: a tick before the scheduled_at of an update of strategy scheduled
\* leaves it scheduled, and a tick at or after its scheduled_at and inside
\* its window moves it to in_progress, unless the tick found the
\* concurrency cap reached: then max_concurrent_updates updates are in
\* progress after the tick
C26_DueUpdateDispatchedByTick ==
  [][Run_Tick =>
       \A id \in DOMAIN sUpdates :
         /\ sUpdates[id].update.Strategy = StrategyScheduled
         /\ sUpdates[id].status = StatusScheduled
         => IF now < sUpdates[id].update.ScheduledAt
            THEN sUpdates'[id].status = StatusScheduled
            ELSE InsideWindow(sUpdates[id].update, now)
                   => \/ sUpdates'[id].status = StatusInProgress
                      \/ Cardinality({i \in DOMAIN sUpdates' :
                                        sUpdates'[i].status
                                          = StatusInProgress})
                           >= sMaxUpdates]_vars

\* a tick at the scheduled_at of an update, later than the time it was
\* scheduled, dispatched it and left a pending update waiting for the cap
C26_Witness ==
  /\ sLast.op = "tick"
  /\ \E id \in DOMAIN sUpdates :
       /\ sUpdates[id].update.Strategy = StrategyScheduled
       /\ sUpdates[id].status = StatusInProgress
       /\ sUpdates[id].startedAt = sLast.at
       /\ sUpdates[id].startedAt = sUpdates[id].update.ScheduledAt
       /\ sUpdates[id].startedAt > sUpdates[id].createdAt
  /\ \E other \in DOMAIN sUpdates : sUpdates[other].status = StatusPending

\* C27: an on_connect update is scheduled after every step, or cancelled,
\* and it becomes cancelled only by the step of a Cancel call for it: no
\* tick moves it to in_progress
C27_OnConnectNeverDispatched ==
  [][\A id \in DOMAIN sUpdates' :
       sUpdates'[id].update.Strategy = StrategyOnConnect
         => \/ sUpdates'[id].status = StatusScheduled
            \/ /\ sUpdates'[id].status = StatusCancelled
               /\ \/ sLast' = [op |-> "Cancel", id |-> id, err |-> "nil"]
                  \/ /\ id \in DOMAIN sUpdates
                     /\ sUpdates[id].status = StatusCancelled]_vars

\* a tick of a running scheduler with no update in progress has left an
\* on_connect update scheduled
C27_Witness ==
  /\ sLast.op = "tick"
  /\ sLoop = "live"
  /\ CountRunningUpdates(sUpdates) = 0
  /\ \E id \in DOMAIN sUpdates :
       /\ sUpdates[id].update.Strategy = StrategyOnConnect
       /\ sUpdates[id].status = StatusScheduled

\* C28: an update is completed only after the engine executions its
\* dispatch causes have returned without error, so the engine's
\* ExecuteUpdateWithPayload has been called and has returned nil
C28_CompletedOnlyAfterEngineExecution ==
  \A id \in DOMAIN sUpdates :
    sUpdates[id].status = StatusCompleted
      => /\ mpc = "returned"
         /\ result = "nil"

\* C29: Status returns a Status and no error for every id that Schedule
\* accepted
C29_StatusOfScheduledIdSucceeds ==
  /\ sLast.op = "Status"
  /\ sLast.id \in DOMAIN sUpdates
  => /\ sLast.err = "nil"
     /\ sLast.status.found

\* C30: Publish starts one Handle for each handler that was subscribed
\* for the type of the event when Publish was called, in no case one for
\* a handler of another type or a second one, and it returns with all of
\* them started whether or not any handler returns
C30_PublishInvokesSubscribersAndReturns ==
  /\ [](/\ \A i \in 1..Len(bPub.invoked) :
             /\ i <= Len(bPub.atCall)
             /\ bPub.invoked[i] = bPub.atCall[i]
         /\ bPub.returned => bPub.invoked = bPub.atCall)
  /\ (bPub.pc = "loop" ~> bPub.returned)

\* Publish has returned after starting the two handlers of its type, none
\* of which has returned, and it started no handler of the other type
C30_Witness ==
  /\ bPub.returned
  /\ Len(bPub.invoked) = 2
  /\ \A h \in HandlerIDs :
       bLive[h] = Cardinality({i \in 1..2 : bPub.invoked[i] = h})
  /\ \E t \in EventTypes : t # bPub.type /\ bHandlers[t] # <<>>

\* C31: every task passed to Submit is at any time either waiting in the
\* queue, being run by one worker, or returned once; when Stop has
\* returned the queue is empty, every worker has left and every submitted
\* task has returned, with or without an error
C31_StopReturnsAfterEveryTaskRanOnce ==
  LET \* the tasks passed to Submit so far: one per device, in list order
      Submitted ==
        IF mpc \in {"validate", "list", "start", "pubStarted", "poolStart"}
        THEN {}
        ELSE {devices[i] : i \in 1..(submitIdx - 1)}
      \* the number of places the task of device d is in: waiting in the
      \* queue, held by a worker that runs it, or returned
      PlacesOf(d) ==
        Cardinality({i \in 1..Len(taskQueue) : taskQueue[i] = d})
        + Cardinality({w \in WorkerIDs : wdev[w] = d})
        + evDeviceCompleted[d] + evDeviceFailed[d]
  IN  /\ \A d \in Submitted : PlacesOf(d) = 1
      /\ \A d \in DeviceIDs \ Submitted : PlacesOf(d) = 0
      /\ (mpc = "returned" /\ Len(devices) > 0) =>
           /\ taskQueue = <<>>
           /\ \A w \in WorkerIDs : wpc[w] \in {"off", "exited"}
           /\ \A d \in Range(devices) :
                /\ d \in Submitted
                /\ evDeviceCompleted[d] + evDeviceFailed[d] = 1

\* Stop has closed the queue and waits while a task is still queued and
\* another task has returned an error
C31_Witness ==
  /\ mpc = "stopWait"
  /\ queueClosed
  /\ Len(taskQueue) > 0
  /\ \E d \in DeviceIDs : evDeviceFailed[d] = 1

\* ------------------------------------------------- progressive rollout
\* the sequences of 1..MaxPhases phases over a set of phases
PhaseLists(choices) == UNION {[1..n -> choices] : n \in 1..MaxPhases}

\* the progressive updates callers declare: phases of 10, 40 or 50 percent
\* that wait for nothing
ProgressiveInputs ==
  {UpdateOf("u1", StrategyProgressive, NoTime, NoTime, NoTime, phases) :
     phases \in PhaseLists({PhaseOf(pct, 0) : pct \in {10, 40, 50}})}

\* a scheduler over a registry that lists 1..MaxTargets devices
SchedulerPhasesInit ==
  /\ \E total \in 1..MaxTargets :
       registryList = [ok |-> TRUE, devs |-> FirstN(total)]
  /\ updateID = "u1"
  /\ maxConcurrent = 1
  /\ seekOK = TRUE
  /\ EngineFresh
  /\ rMaxAttempts = RetryAttempts
  /\ RetryIdle
  /\ CallersIdle
  /\ SchedulerNew(1)

\* the caller schedules one update
SchedulerPhasesNext ==
  \/ \E update \in ProgressiveInputs :
       sUpdates = <<>> /\ Scheduler_Schedule(update)
  \/ Scheduler_Start
  \/ Run_Tick
  \/ Exec_Run("u1")
  \/ Exec_WaitOver("u1")
  \/ Exec_Finish("u1")

\* one progressive update is scheduled, dispatched and run through its
\* phases
SpecSchedulerPhases == SchedulerPhasesInit /\ [][SchedulerPhasesNext]_vars

\* C32: phase k of a progressive dispatch over total devices gets
\* min(max(1, floor(total * percentage_k / 100)), total - offset_k) devices
\* starting at offset_k, the sum of the earlier counts, so the slices are
\* contiguous, disjoint and in declared order and never pass total; 10
\* devices with 10/40/50 give 1, 4 and 5
C32_PhaseSlicesFollowPercentages ==
  \A id \in DOMAIN sExec :
    LET e == sExec[id]
        phases == sUpdates[id].update.RolloutPhases
        total == Len(registryList.devs)
        RECURSIVE CountsUpTo(_)
        CountsUpTo(k) ==
          IF k = 0 THEN 0 ELSE e.slices[k].count + CountsUpTo(k - 1)
        Least(a, b) == IF a <= b THEN a ELSE b
        Greatest(a, b) == IF a >= b THEN a ELSE b
    IN  /\ \A k \in 1..Len(e.slices) :
             LET offset == CountsUpTo(k - 1)
                 pct == phases[k].Percentage
             IN  /\ e.slices[k].from = offset
                 /\ e.slices[k].count
                      = Least(Greatest(1, (total * pct) \div 100),
                              total - offset)
                 /\ e.slices[k].count >= 0
                 /\ offset + e.slices[k].count <= total
        /\ (/\ total = 10
            /\ phases = <<PhaseOf(10, 0), PhaseOf(40, 0), PhaseOf(50, 0)>>
            /\ e.pc = "finish")
             => /\ Len(e.slices) = 3
                /\ e.slices[1].count = 1
                /\ e.slices[2].count = 4
                /\ e.slices[3].count = 5

\* ten devices were split 1, 4, 5 by the phases 10/40/50
C32_Witness ==
  /\ "u1" \in DOMAIN sExec
  /\ Len(registryList.devs) = 10
  /\ sUpdates["u1"].update.RolloutPhases
       = <<PhaseOf(10, 0), PhaseOf(40, 0), PhaseOf(50, 0)>>
  /\ sExec["u1"].pc = "finish"
  /\ Len(sExec["u1"].slices) = 3
  /\ sExec["u1"].slices[1].count = 1
  /\ sExec["u1"].slices[2].count = 4
  /\ sExec["u1"].slices[3].count = 5
  /\ sExec["u1"].deviceOffset = 10

\* the progressive updates whose phases wait 0..MaxWait clock readings
WaitInputs ==
  {UpdateOf("u1", StrategyProgressive, NoTime, NoTime, NoTime, phases) :
     phases \in PhaseLists({PhaseOf(50, wait) : wait \in 0..MaxWait})}

\* the caller schedules one update at the first reading of the clock and
\* may cancel it; the scheduler is started and not stopped
SchedulerWaitsNext ==
  \/ \E update \in WaitInputs :
       now = 0 /\ sUpdates = <<>> /\ Scheduler_Schedule(update)
  \/ Scheduler_Cancel("u1")
  \/ Scheduler_Start
  \/ Run_Tick
  \/ Exec_Run("u1")
  \/ Exec_WaitOver("u1")
  \/ Exec_WaitCancelled("u1")
  \/ Exec_Finish("u1")
  \/ Clock_Tick

\* one progressive update runs through its phases and the waits between
\* them while time passes
SpecSchedulerWaits == SchedulerWindowInit /\ [][SchedulerWaitsNext]_vars

\* C33: phase k+1 is not begun before wait_time of phase k has elapsed
\* since phase k, nothing is waited for after the last phase, and a
\* cancellation during the wait between two phases ends the wait at once:
\* no later phase is run and the execution returns the cancellation error
C33_WaitBetweenPhasesAndCancel ==
  \A id \in DOMAIN sExec :
    LET e == sExec[id]
        update == sUpdates[id].update
        phases == update.RolloutPhases
        cancelledDuringWait ==
          /\ e.cancelled.pc = "wait"
          /\ e.cancelled.at < e.slices[e.cancelled.phase].at
                                + phases[e.cancelled.phase].WaitTime
    IN  /\ \A k \in 1..(Len(e.slices) - 1) :
             e.slices[k + 1].at >= e.slices[k].at + phases[k].WaitTime
        /\ e.pc = "wait" => e.phase < Len(phases)
        /\ (e.pc = "finish" /\ e.err = "nil") =>
             /\ Len(e.slices) = Len(phases)
             /\ e.waitUntil <= e.slices[Len(phases)].at
        /\ cancelledDuringWait =>
             /\ Len(e.slices) = e.cancelled.phase
             /\ e.pc \in {"wait", "finish"}
             /\ e.pc = "wait" => ENABLED Exec_WaitCancelled(id)
             /\ e.pc = "finish" => e.err = "context canceled"

\* an execution that was cancelled while it waited after its first phase
\* has returned the cancellation error before the wait_time was over
C33_Witness ==
  /\ "u1" \in DOMAIN sExec
  /\ sExec["u1"].cancelled.pc = "wait"
  /\ sExec["u1"].cancelled.phase = 1
  /\ sExec["u1"].cancelled.at
       < sExec["u1"].slices[1].at
           + sUpdates["u1"].update.RolloutPhases[1].WaitTime
  /\ sExec["u1"].pc = "finish"
  /\ sExec["u1"].err = "context canceled"
  /\ now < sExec["u1"].waitUntil
  /\ Len(sExec["u1"].slices) < Len(sUpdates["u1"].update.RolloutPhases)

\* C34: the delay Do sleeps after the k-th failed attempt is
\* min(initial_delay * multiplier^(k-1), max_delay) in whole Durations:
\* the first is initial_delay unless max_delay is smaller, the delays do
\* not decrease for a multiplier >= 1, and none exceeds max_delay
C34_BackoffIsCappedExponential ==
  /\ Len(delays) = sleeps
  /\ Len(delays) < rMaxAttempts \/ Len(delays) = 0
  /\ \A k \in 1..Len(delays) :
       LET m == rBackoff.Multiplier
           scaled == (rBackoff.InitialDelay * Power(m.num, k - 1))
                       \div Power(m.den, k - 1)
           Least(a, b) == IF a <= b THEN a ELSE b
       IN  /\ delays[k] = Least(scaled, rBackoff.MaxDelay)
           /\ delays[k] <= rBackoff.MaxDelay
           /\ k = 1 =>
                delays[k] = Least(rBackoff.InitialDelay, rBackoff.MaxDelay)
           /\ (k > 1 /\ m.num >= m.den) => delays[k] >= delays[k - 1]

\* Do slept its initial delay and then a delay that MaxDelay cut short
C34_Witness ==
  /\ Len(delays) >= 2
  /\ delays[1] = rBackoff.InitialDelay
  /\ delays[2] = rBackoff.MaxDelay
  /\ delays[1] < delays[2]
  /\ rBackoff.InitialDelay * rBackoff.Multiplier.num
       > rBackoff.MaxDelay * rBackoff.Multiplier.den

\* C35: while Stop waits for the scheduler's goroutines, the ctx of every
\* execution that is still running has been cancelled, so Stop does not
\* wait for an execution to finish on its own
C35_StopCancelsRunningExecutions ==
  sLife = "stopWait" =>
    \A id \in DOMAIN sExec : sExec[id].ctxDone

\* C37: a scheduler can be started again after Stop: the run loop of a
\* running scheduler is alive and ticks, and no Stop crashes
C37_SchedulerCanBeRestarted ==
  /\ sLife # "panicked"
  /\ (sRunning /\ sLife = "idle") => sLoop = "live"
  /\ sLast.op = "Stop" =>
       sLast.err \in {"nil", "waiting", "scheduler not running"}

\* C36: Do returns nil only if some invocation of the action returned
\* without error, for every config including max_attempts <= 0
C36_NilOnlyAfterSuccessfulInvocation ==
  (rpc = "done" /\ rResult = NoErr) =>
    /\ calls >= 1
    /\ \E i \in 1..Len(outcomes) : outcomes[i] = "nil"

\* C38: when the percentages of the phases sum to 100 and there are at
\* least as many devices as phases, the offset after the last phase is
\* the number of devices: every device was in the slice of one phase
C38_AllDevicesAssignedWhenSumIs100 ==
  \A id \in DOMAIN sExec :
    LET e == sExec[id]
        update == sUpdates[id].update
        total == Len(registryList.devs)
        RECURSIVE Percentages(_)
        Percentages(k) ==
          IF k = 0 THEN 0
          ELSE update.RolloutPhases[k].Percentage + Percentages(k - 1)
        RECURSIVE Counts(_)
        Counts(k) == IF k = 0 THEN 0 ELSE e.slices[k].count + Counts(k - 1)
    IN  (/\ e.pc = "finish"
         /\ e.err = "nil"
         /\ update.Strategy = StrategyProgressive
         /\ Percentages(Len(update.RolloutPhases)) = 100
         /\ total >= Len(update.RolloutPhases))
          => /\ e.deviceOffset = total
             /\ Counts(Len(e.slices)) = total

\* C39: a run of ExecuteUpdateWithPayload in which every Push returns
\* comes to its return, whatever the number of devices and workers and
\* whether or not its ctx is cancelled on the way
C39_ExecuteTerminates == <>(mpc = "returned")

\* a run with more devices than workers has returned although its ctx was
\* cancelled while a task was still waiting for a worker
C39_Witness ==
  /\ mpc = "returned"
  /\ ctxDone
  /\ pendingAtCancel # {}
  /\ Len(devices) > maxConcurrent
  /\ result = "nil"

\* C40: under any interleaving of ticks, Schedule, Cancel and returning
\* executions an update is handed to executeUpdate at most once, only
\* when its status is pending or scheduled, and no execution starts
\* without that
C40_DispatchedAtMostOnce ==
  [][\A id \in DOMAIN sUpdates' :
       LET before == IF id \in DOMAIN sUpdates
                     THEN sUpdates[id].dispatched ELSE 0
           after == sUpdates'[id].dispatched
       IN  /\ after <= 1
           /\ after >= before
           /\ after > before =>
                /\ sUpdates[id].status \in {StatusPending, StatusScheduled}
                /\ id \notin DOMAIN sExec
                /\ id \in DOMAIN sExec'
           /\ (id \in DOMAIN sExec' /\ id \notin DOMAIN sExec)
                => after > before]_vars

\* a tick has left alone an update that had been dispatched and had ended,
\* while it dispatched nothing in its place
C40_Witness ==
  /\ sLast.op = "tick"
  /\ \E id \in DOMAIN sUpdates :
       /\ sUpdates[id].dispatched = 1
       /\ sUpdates[id].status \in {StatusCompleted, StatusFailed,
                                    StatusCancelled}
       /\ id \notin DOMAIN sExec

====
